---- MODULE Spec2Model ----
(***************************************************************************)
(* Peloton: the host manager's offer pool (hostmgr/offer/offerpool), the   *)
(* host summaries it indexes, and the resource manager's task tracker.     *)
(*                                                                         *)
(* Spec        the offer pool, every Pool operation run to completion.     *)
(* SpecTracker the task tracker and the task state machine.                *)
(* SpecPlace   concurrent ClaimForPlace calls, one step per critical       *)
(*             section.                                                    *)
(***************************************************************************)
EXTENDS Integers, Sequences, FiniteSets, TLC

(***************************************************************************)
(* Bounds of the model.                                                    *)
(***************************************************************************)
NumHosts == 2
NumOffers == 3
MaxBatch == 2
AvailSlack == 1

(***************************************************************************)
(* Configuration of the pool, in clock ticks.                              *)
(***************************************************************************)
OfferHoldTime == 0
PlacingHoldTime == 0

(***************************************************************************)
(* The offers the broker may send.  An offer id names one offer for good:  *)
(* its host and its resources never change.  The resources of every third  *)
(* offer are label-reserved (no persistent volume), those of the others    *)
(* are unreserved.  The offers carry distinct powers of two, so that a sum *)
(* of offers identifies the offers summed.                                 *)
(***************************************************************************)
Hosts == 1..NumHosts

OfferIds == 1..NumOffers

OfferHostname(o) == ((o - 1) % NumHosts) + 1

HasLabeledReservedResources(o) == o % 3 = 0

OfferResources(o) == 2 ^ (o - 1)

\* The scalar of all the resources of the offer.
FromOffer(o) == OfferResources(o)

RECURSIVE FromOfferMap(_)
FromOfferMap(offers) ==
    IF offers = {} THEN 0
    ELSE LET o == CHOOSE x \in offers : TRUE
         IN  FromOffer(o) + FromOfferMap(offers \ {o})

(***************************************************************************)
(* Scalar resources (one dimension; the operations are componentwise).     *)
(***************************************************************************)
Contains(r, other) == r >= other

Add(r, other) == r + other

Subtract(r, other) == IF Contains(r, other) THEN r - other ELSE 0

(***************************************************************************)
(* Host summary: the per-host state machine and its two offer bags.        *)
(***************************************************************************)
ReadyOffer == "READY"

PlacingOffer == "PLACING"

New ==
    [status |-> ReadyOffer,
     unreservedOffers |-> {},
     reservedOffers |-> {},
     statusPlacingOfferExpiration |-> 0 - 1]

HasOffer(s) == s.status = ReadyOffer /\ s.unreservedOffers # {}

HasAnyOffer(s) == s.unreservedOffers # {} \/ s.reservedOffers # {}

UnreservedAmount(s) == FromOfferMap(s.unreservedOffers)

\* Returns the summary with the offer in its bag; the status it reports is
\* the summary's status.
AddMesosOffer(s, o) ==
    IF HasLabeledReservedResources(o)
    THEN [s EXCEPT !.reservedOffers = @ \cup {o}]
    ELSE [s EXCEPT !.unreservedOffers = @ \cup {o}]

\* [summary, status, removed]: removed is FALSE when the summary does not
\* hold the offer (the code's nil offer).
RemoveMesosOffer(s, o) ==
    [summary |-> [s EXCEPT !.unreservedOffers = @ \ {o},
                           !.reservedOffers = @ \ {o}],
     status |-> s.status,
     removed |-> o \in (s.unreservedOffers \cup s.reservedOffers)]

\* [err, offers, summary]
SummaryClaimForLaunch(s) ==
    IF s.status # PlacingOffer
    THEN [err |-> TRUE, offers |-> {}, summary |-> s]
    ELSE [err |-> FALSE,
          offers |-> s.unreservedOffers,
          summary |-> [s EXCEPT !.unreservedOffers = {},
                                !.status = ReadyOffer]]

ClaimReservedOffersForLaunch(s) ==
    [err |-> FALSE,
     offers |-> s.reservedOffers,
     summary |-> [s EXCEPT !.reservedOffers = {}]]

\* [err, summary]
CasStatus(s, old, new) ==
    IF s.status # old
    THEN [err |-> TRUE, summary |-> s]
    ELSE [err |-> FALSE, summary |-> [s EXCEPT !.status = new]]

\* [reset, res, summary]
ResetExpiredPlacingOfferStatus(s, t) ==
    IF s.status = PlacingOffer /\ t > s.statusPlacingOfferExpiration
    THEN [reset |-> TRUE,
          res |-> UnreservedAmount(s),
          summary |-> [s EXCEPT !.status = ReadyOffer]]
    ELSE [reset |-> FALSE, res |-> 0, summary |-> s]

\* [offers, summary]: the reserved offers without persistent volume.
RemoveUnusedReservedOffers(s) ==
    [offers |-> s.reservedOffers,
     summary |-> [s EXCEPT !.reservedOffers = {}]]

\* TryMatch without the test of the status.
TryMatch_AnyStatus(s, filter, t) ==
    IF s.unreservedOffers # {}
       /\ Contains(UnreservedAmount(s), filter.minimum)
    THEN [match |-> TRUE,
          offers |-> s.unreservedOffers,
          summary |-> [s EXCEPT !.status = PlacingOffer,
                                !.statusPlacingOfferExpiration =
                                    t + PlacingHoldTime]]
    ELSE [match |-> FALSE, offers |-> {}, summary |-> s]

\* The matcher's test-and-set on one summary: [match, offers, summary].
TryMatch(s, filter, t) ==
    IF HasOffer(s) /\ Contains(UnreservedAmount(s), filter.minimum)
    THEN [match |-> TRUE,
          offers |-> s.unreservedOffers,
          summary |-> [s EXCEPT !.status = PlacingOffer,
                                !.statusPlacingOfferExpiration =
                                    t + PlacingHoldTime]]
    ELSE [match |-> FALSE, offers |-> {}, summary |-> s]

(***************************************************************************)
(* State.                                                                  *)
(***************************************************************************)
VARIABLES
    hostOfferIndex,    \* hostname -> host summary
    timedOffers,       \* offer id -> [Hostname, Expiration]
    readyResources,
    placingResources,
    availableHosts,    \* atomic.Uint32, kept as its signed 32-bit residue
    now,               \* the clock read by time.Now(): every time.Time the
                       \* pool stores is kept as its distance from this
                       \* reading, which therefore stays 0
    last,              \* the operation that ran last and its result
    addMark            \* the latest single-offer AddOffers being followed

poolVars ==
    <<hostOfferIndex, timedOffers, readyResources, placingResources,
      availableHosts, now, last, addMark>>

VARIABLES
    tasks,             \* tracker: task id -> state of its RMTask
    allocation,        \* the allocation of the resource pool of the tasks
    lastT              \* the tracker operation that ran last

trackerVars == <<tasks, allocation, lastT>>

VARIABLES
    callers,           \* the call every client is running
    claims,            \* hostname -> the number of calls that took the host
    added              \* the offers handed to AddOffers calls by the clients

placeVars == <<callers, claims, added>>

VARIABLES
    allNodes,          \* resource tree: pool id -> [parent, reservation]
    lastTree,          \* the tree operation that ran last
    pendingQueue,      \* pending queue of one pool: priority -> task ids
    enqueued,          \* the tasks enqueued so far, in order of enqueueing
    dequeued           \* the tasks dequeued so far, in order of dequeueing

respoolVars == <<allNodes, lastTree, pendingQueue, enqueued, dequeued>>

VARIABLES
    taskInfos,         \* job manager: task id -> the task's stored runtime
    resmgrGangs,       \* task id -> the EnqueueGangs calls made for the task
    lastU              \* the status update processed last

updateVars == <<taskInfos, resmgrGangs, lastU>>

VARIABLES
    streamEvents,      \* event stream: the number of events added to it
    progress,          \* forwarder: the number of events it has passed on
    clientEvents,      \* the offsets of the events the resource manager got
    returnError,       \* whether NotifyTaskUpdates calls fail
    lastF              \* the step of the forwarder's test that ran last

forwarderVars ==
    <<streamEvents, progress, clientEvents, returnError, lastF>>

VARIABLES
    metrics,           \* offer pool: the counters of its unreserve calls
    lastClean          \* the CleanReservationResources that ran last

metricsVars == <<metrics, lastClean>>

VARIABLES
    isLeader,          \* job service: candidate.IsLeader()
    jobStore,          \* job id -> the job's stored runtime, if any
    jobFactory,        \* the ids of the jobs in the cache
    secretStore,       \* the ids of the jobs whose secrets are stored
    goalStateDriver,   \* the jobs and the updates enqueued to the engine
    lastJ              \* the call of the job service that ran last

jobsvcVars ==
    <<isLeader, jobStore, jobFactory, secretStore, goalStateDriver, lastJ>>

VARIABLES
    threads            \* offer pool: each caller's operation, the lock steps
                       \* it has still to take, and the locks it holds

lockVars == <<threads>>

VARIABLES
    placingHosts,      \* Host Manager: the hosts it holds PLACING for the
                       \* placement engine
    acquiredHosts,     \* placement engine: the hosts Acquire handed to it
    lastA              \* the call of the offer service that ran last

offerSvcVars == <<placingHosts, acquiredHosts, lastA>>

VARIABLES
    claimant,          \* hostname -> the caller whose ClaimForPlace took
                       \* the host last, 0 if none did
    claimedHosts,      \* caller -> the hosts it was given and has neither
                       \* returned nor launched on
    lastC              \* the ReturnUnusedOffers or ClaimForLaunch of a
                       \* claimant that ran last

claimVars == <<claimant, claimedHosts, lastC>>

VARIABLES
    launchedOffers,    \* the offers ClaimForLaunch calls have returned
    lastR              \* the RescindOffer or RemoveExpiredOffers that ran
                       \* last beside AddOffers calls in progress

raceVars == <<launchedOffers, lastR>>

VARIABLES
    instIDs,           \* the slice handed to
                       \* convertInstanceIDListToInstanceRange
    instanceIDRange,   \* the ranges it returned
    converted          \* whether it has run

convVars == <<instIDs, instanceIDRange, converted>>

extVars ==
    <<updateVars, forwarderVars, metricsVars, jobsvcVars, lockVars,
      offerSvcVars, claimVars, raceVars, convVars>>

coreVars == <<poolVars, trackerVars, placeVars, respoolVars>>

vars == <<poolVars, trackerVars, placeVars, respoolVars, extVars>>

UpdateFrame ==
    UNCHANGED <<coreVars, forwarderVars, metricsVars, jobsvcVars, lockVars,
                offerSvcVars, claimVars, raceVars, convVars>>

ForwarderFrame ==
    UNCHANGED <<coreVars, updateVars, metricsVars, jobsvcVars, lockVars,
                offerSvcVars, claimVars, raceVars, convVars>>

CleanFrame ==
    UNCHANGED <<trackerVars, placeVars, respoolVars, updateVars,
                forwarderVars, jobsvcVars, lockVars, offerSvcVars,
                claimVars, raceVars, convVars, now, last, addMark>>

JobFrame ==
    UNCHANGED <<coreVars, updateVars, forwarderVars, metricsVars, lockVars,
                offerSvcVars, claimVars, raceVars, convVars>>

LockFrame ==
    UNCHANGED <<coreVars, updateVars, forwarderVars, metricsVars,
                jobsvcVars, offerSvcVars, claimVars, raceVars, convVars>>

OfferSvcFrame ==
    UNCHANGED <<coreVars, updateVars, forwarderVars, metricsVars,
                jobsvcVars, lockVars, claimVars, raceVars, convVars>>

ClaimFrame ==
    UNCHANGED <<trackerVars, placeVars, respoolVars, updateVars,
                forwarderVars, metricsVars, jobsvcVars, lockVars,
                offerSvcVars, raceVars, convVars, readyResources,
                placingResources, availableHosts, now, addMark>>

RaceFrame ==
    UNCHANGED <<trackerVars, respoolVars, updateVars, forwarderVars,
                metricsVars, jobsvcVars, lockVars, offerSvcVars, claimVars,
                convVars, now, last, addMark, claims>>

ConvFrame ==
    UNCHANGED <<coreVars, updateVars, forwarderVars, metricsVars,
                jobsvcVars, lockVars, offerSvcVars, claimVars, raceVars>>

\* The pool as one value: what the operations below take and return.
Pool ==
    [index |-> hostOfferIndex,
     timed |-> timedOffers,
     ready |-> readyResources,
     placing |-> placingResources,
     avail |-> availableHosts]

EmptyPool ==
    [index |-> <<>>, timed |-> <<>>, ready |-> 0, placing |-> 0, avail |-> 0]

incQuantity(resources, delta) == Add(resources, delta)

decQuantity(resources, delta) == Subtract(resources, delta)

Inc(counter) == counter + 1

Dec(counter) == counter - 1

(***************************************************************************)
(* AddOffers.                                                              *)
(***************************************************************************)
\* The part tryAddOffer and addOffer share once the summary exists.
addToSummary(P, o) ==
    LET h == OfferHostname(o)
        s == P.index[h]
    IN  [P EXCEPT
            !.avail = IF ~HasAnyOffer(s) THEN Inc(@) ELSE @,
            !.index = [@ EXCEPT ![h] = AddMesosOffer(s, o)],
            !.ready = IF s.status = ReadyOffer
                      THEN incQuantity(@, FromOffer(o)) ELSE @,
            !.placing = IF s.status = PlacingOffer
                        THEN incQuantity(@, FromOffer(o)) ELSE @]

\* [result, pool]
tryAddOffer(P, o) ==
    IF OfferHostname(o) \notin DOMAIN P.index
    THEN [result |-> FALSE, pool |-> P]
    ELSE [result |-> TRUE, pool |-> addToSummary(P, o)]

addOffer(P, o) ==
    LET h == OfferHostname(o)
        Q == IF h \in DOMAIN P.index
             THEN P
             ELSE [P EXCEPT !.index = (h :> New) @@ @]
    IN  addToSummary(Q, o)

RECURSIVE addOffersLoop(_, _, _)
addOffersLoop(P, offers, i) ==
    IF i > Len(offers) THEN P
    ELSE LET r == tryAddOffer(P, offers[i])
             Q == IF r.result THEN r.pool ELSE addOffer(P, offers[i])
         IN  addOffersLoop(Q, offers, i + 1)

setTimedOffers(P, offers, expiration) ==
    LET ids == {offers[i] : i \in 1..Len(offers)}
    IN  [P EXCEPT !.timed =
            [o \in ids |-> [Hostname |-> OfferHostname(o),
                            Expiration |-> expiration]] @@ @]

AddOffers(P, offers, t) ==
    setTimedOffers(addOffersLoop(P, offers, 1), offers, t + OfferHoldTime)

(***************************************************************************)
(* RescindOffer: [found, pool].                                            *)
(***************************************************************************)
Without(f, keys) == [k \in (DOMAIN f) \ keys |-> f[k]]

\* removeFromSummary settling the ready counter whatever the status.
removeFromSummary_Ready(P, h, o) ==
    LET r == RemoveMesosOffer(P.index[h], o)
    IN  [P EXCEPT
            !.index = [@ EXCEPT ![h] = r.summary],
            !.ready = IF r.removed
                      THEN decQuantity(@, FromOffer(o)) ELSE @,
            !.avail = IF ~HasAnyOffer(r.summary) THEN Dec(@) ELSE @]

\* Removes offer o from the summary of host h and settles the counters.
removeFromSummary(P, h, o) ==
    LET r == RemoveMesosOffer(P.index[h], o)
    IN  [P EXCEPT
            !.index = [@ EXCEPT ![h] = r.summary],
            !.ready = IF r.removed /\ r.status = ReadyOffer
                      THEN decQuantity(@, FromOffer(o)) ELSE @,
            !.placing = IF r.removed /\ r.status = PlacingOffer
                        THEN decQuantity(@, FromOffer(o)) ELSE @,
            !.avail = IF ~HasAnyOffer(r.summary) THEN Dec(@) ELSE @]

\* RescindOffer leaving the entry of the offer in timedOffers.
RescindOffer_KeepTimed(P, o) ==
    IF o \notin DOMAIN P.timed
    THEN [found |-> FALSE, pool |-> P]
    ELSE LET h == P.timed[o].Hostname
         IN  IF h \notin DOMAIN P.index
             THEN [found |-> FALSE, pool |-> P]
             ELSE [found |-> TRUE, pool |-> removeFromSummary(P, h, o)]

RescindOffer(P, o) ==
    IF o \notin DOMAIN P.timed
    THEN [found |-> FALSE, pool |-> P]
    ELSE LET h == P.timed[o].Hostname
             Q == [P EXCEPT !.timed = Without(@, {o})]
         IN  IF h \notin DOMAIN Q.index
             THEN [found |-> FALSE, pool |-> Q]
             ELSE [found |-> TRUE, pool |-> removeFromSummary(Q, h, o)]

(***************************************************************************)
(* RemoveExpiredOffers: [declined, valid, panic, pool].                    *)
(***************************************************************************)
RECURSIVE removeExpiredLoop(_, _, _)
removeExpiredLoop(P, declined, todo) ==
    IF todo = {} THEN [panic |-> FALSE, pool |-> P]
    ELSE LET o == CHOOSE x \in todo : TRUE
             h == declined[o].Hostname
         IN  IF h \notin DOMAIN P.index
             THEN [panic |-> TRUE, pool |-> P]
             ELSE removeExpiredLoop(removeFromSummary(P, h, o),
                                    declined, todo \ {o})

\* RemoveExpiredOffers taking every offer for expired.
RemoveExpiredOffers_All(P, t) ==
    LET expired == DOMAIN P.timed
        declined == [o \in expired |-> P.timed[o]]
        Q == [P EXCEPT !.timed = Without(@, expired)]
        r == removeExpiredLoop(Q, declined, expired)
    IN  [declined |-> declined,
         valid |-> Cardinality(DOMAIN Q.timed),
         panic |-> r.panic,
         pool |-> r.pool]

\* The offers whose expiration lies before t go out of timedOffers first,
\* then out of their summaries.
RemoveExpiredOffers(P, t) ==
    LET expired == {o \in DOMAIN P.timed : t > P.timed[o].Expiration}
        declined == [o \in expired |-> P.timed[o]]
        Q == [P EXCEPT !.timed = Without(@, expired)]
        r == removeExpiredLoop(Q, declined, expired)
    IN  [declined |-> declined,
         valid |-> Cardinality(DOMAIN Q.timed),
         panic |-> r.panic,
         pool |-> r.pool]

(***************************************************************************)
(* Clear.  The available-host gauge is not among the fields it resets.     *)
(***************************************************************************)
Clear(P) ==
    [P EXCEPT !.timed = <<>>, !.index = <<>>, !.ready = 0, !.placing = 0]

(***************************************************************************)
(* ClaimForPlace: [hostOffers, pool].  hostOffers maps each matched        *)
(* hostname to the offers returned for it; order is the order in which the *)
(* range over the host index visits the hosts.                             *)
(***************************************************************************)
HasEnoughHosts(hostOffers, filter) ==
    Cardinality(DOMAIN hostOffers) >= filter.maxHosts

\* The loop over the host index without its break.
RECURSIVE matchLoop_NoBreak(_, _, _, _, _, _)
matchLoop_NoBreak(index, hostOffers, filter, order, i, t) ==
    IF i > Len(order) THEN [index |-> index, hostOffers |-> hostOffers]
    ELSE LET h == order[i]
             m == TryMatch(index[h], filter, t)
             idx == [index EXCEPT ![h] = m.summary]
             ho == IF m.match THEN (h :> m.offers) @@ hostOffers
                   ELSE hostOffers
         IN  matchLoop_NoBreak(idx, ho, filter, order, i + 1, t)

\* tryMatch on every host in the order of the range, until enough matched.
RECURSIVE matchLoop(_, _, _, _, _, _)
matchLoop(index, hostOffers, filter, order, i, t) ==
    IF i > Len(order) THEN [index |-> index, hostOffers |-> hostOffers]
    ELSE LET h == order[i]
             m == TryMatch(index[h], filter, t)
             idx == [index EXCEPT ![h] = m.summary]
             ho == IF m.match THEN (h :> m.offers) @@ hostOffers
                   ELSE hostOffers
         IN  IF HasEnoughHosts(ho, filter)
             THEN [index |-> idx, hostOffers |-> ho]
             ELSE matchLoop(idx, ho, filter, order, i + 1, t)

AllOffers(hostOffers) == UNION {hostOffers[h] : h \in DOMAIN hostOffers}

\* ClaimForPlace dropping the timedOffers entries of the offers it returns.
ClaimForPlace_Takes(P, filter, order, t) ==
    LET m == matchLoop(P.index, <<>>, filter, order, 1, t)
        delta == FromOfferMap(AllOffers(m.hostOffers))
        claimed == DOMAIN m.hostOffers # {}
    IN  [hostOffers |-> m.hostOffers,
         pool |-> [P EXCEPT
                      !.index = m.index,
                      !.timed = Without(@, AllOffers(m.hostOffers)),
                      !.placing = IF claimed THEN incQuantity(@, delta) ELSE @,
                      !.ready = IF claimed THEN decQuantity(@, delta) ELSE @]]

\* The counters move only when a host was matched.
ClaimForPlace(P, filter, order, t) ==
    LET m == matchLoop(P.index, <<>>, filter, order, 1, t)
        delta == FromOfferMap(AllOffers(m.hostOffers))
        claimed == DOMAIN m.hostOffers # {}
    IN  [hostOffers |-> m.hostOffers,
         pool |-> [P EXCEPT
                      !.index = m.index,
                      !.placing = IF claimed THEN incQuantity(@, delta) ELSE @,
                      !.ready = IF claimed THEN decQuantity(@, delta) ELSE @]]

(***************************************************************************)
(* ClaimForLaunch: [panic, err, offers, pool].  Indexing the host map with *)
(* an unknown hostname yields the nil summary, and the method call on it   *)
(* panics.                                                                 *)
(***************************************************************************)
ClaimForLaunch(P, hostname, useReservedOffers) ==
    IF hostname \notin DOMAIN P.index
    THEN [panic |-> TRUE, err |-> FALSE, offers |-> {}, pool |-> P]
    ELSE LET c == IF useReservedOffers
                  THEN ClaimReservedOffersForLaunch(P.index[hostname])
                  ELSE SummaryClaimForLaunch(P.index[hostname])
         IN  IF c.err
             THEN [panic |-> FALSE, err |-> TRUE, offers |-> {}, pool |-> P]
             ELSE [panic |-> FALSE, err |-> FALSE, offers |-> c.offers,
                   pool |-> [P EXCEPT
                      !.index = [@ EXCEPT ![hostname] = c.summary],
                      !.timed = Without(@, c.offers),
                      !.placing = IF ~useReservedOffers
                                  THEN decQuantity(@, FromOfferMap(c.offers))
                                  ELSE @,
                      !.avail = IF ~HasAnyOffer(c.summary)
                                THEN Dec(@) ELSE @]]

(***************************************************************************)
(* ReturnUnusedOffers: [err, pool].                                        *)
(***************************************************************************)
\* ReturnUnusedOffers moving the resources whatever CasStatus answers.
ReturnUnusedOffers_NoCas(P, hostname) ==
    IF hostname \notin DOMAIN P.index
    THEN [err |-> FALSE, pool |-> P]
    ELSE LET c == CasStatus(P.index[hostname], PlacingOffer, ReadyOffer)
             delta == UnreservedAmount(c.summary)
         IN  [err |-> FALSE,
              pool |-> [P EXCEPT
                 !.index = [@ EXCEPT ![hostname] = c.summary],
                 !.placing = decQuantity(@, delta),
                 !.ready = incQuantity(@, delta)]]

\* An unknown host is not an error; a host that is not PLACING is.
ReturnUnusedOffers(P, hostname) ==
    IF hostname \notin DOMAIN P.index
    THEN [err |-> FALSE, pool |-> P]
    ELSE LET c == CasStatus(P.index[hostname], PlacingOffer, ReadyOffer)
             delta == UnreservedAmount(c.summary)
         IN  IF c.err
             THEN [err |-> TRUE, pool |-> P]
             ELSE [err |-> FALSE,
                   pool |-> [P EXCEPT
                      !.index = [@ EXCEPT ![hostname] = c.summary],
                      !.placing = decQuantity(@, delta),
                      !.ready = incQuantity(@, delta)]]

(***************************************************************************)
(* ResetExpiredHostSummaries: [hostnames, pool].                           *)
(***************************************************************************)
RECURSIVE resetLoop(_, _, _, _)
\* The loop without the reset of the summaries it visits.
resetLoop_NoReset(P, hostnames, todo, t) ==
    [hostnames |-> hostnames, pool |-> P]

resetLoop(P, hostnames, todo, t) ==
    IF todo = {} THEN [hostnames |-> hostnames, pool |-> P]
    ELSE LET h == CHOOSE x \in todo : TRUE
             r == ResetExpiredPlacingOfferStatus(P.index[h], t)
             Q == IF r.reset
                  THEN [P EXCEPT
                          !.index = [@ EXCEPT ![h] = r.summary],
                          !.ready = incQuantity(@, r.res),
                          !.placing = decQuantity(@, r.res)]
                  ELSE P
         IN  resetLoop(Q, IF r.reset THEN hostnames \cup {h} ELSE hostnames,
                       todo \ {h}, t)

ResetExpiredHostSummaries(P, t) == resetLoop(P, {}, DOMAIN P.index, t)

(***************************************************************************)
(* CleanReservationResources: [unreserved, pool].  unreserved holds the    *)
(* offers an ACCEPT{UNRESERVE} call was sent for.                          *)
(***************************************************************************)
CleanReservationResources(P) ==
    [unreserved |->
        UNION {RemoveUnusedReservedOffers(P.index[h]).offers :
                  h \in DOMAIN P.index},
     pool |-> [P EXCEPT !.index =
        [h \in DOMAIN @ |-> RemoveUnusedReservedOffers(@[h]).summary]]]

(***************************************************************************)
(* History kept beside the pool: the last operation, and a single added    *)
(* offer followed until it is rescinded and its host released.             *)
(***************************************************************************)
\* res is "ok", "err" or "panic"; some tells whether anything was returned
\* (offers, hostnames, or the boolean true).
Op(name, res, some) == [op |-> name, res |-> res, some |-> some]

NoAdd ==
    [phase |-> "none", offer |-> 0, host |-> 0, lone |-> FALSE]

\* The available-host counter is followed AvailSlack beyond the values a
\* count of hosts can take, and the resource counters up to the resources
\* of all the offers together, and no further.
ResourceCap == FromOfferMap(OfferIds)

SetPool(P) ==
    /\ P.avail \in (0 - AvailSlack)..(NumHosts + AvailSlack)
    /\ P.ready + P.placing <= ResourceCap
    /\ UNCHANGED <<trackerVars, placeVars, respoolVars, extVars>>
    /\ hostOfferIndex' = P.index
    /\ timedOffers' = P.timed
    /\ readyResources' = P.ready
    /\ placingResources' = P.placing
    /\ availableHosts' = P.avail

InPool(o) ==
    \/ o \in DOMAIN timedOffers
    \/ \E h \in DOMAIN hostOfferIndex :
          o \in hostOfferIndex[h].unreservedOffers
                  \cup hostOfferIndex[h].reservedOffers

Injective(f) == \A i, j \in DOMAIN f : f[i] = f[j] => i = j

Batches(ids) ==
    UNION {{b \in [1..n -> ids] : Injective(b)} : n \in 1..MaxBatch}

Orders(S) == {f \in [1..Cardinality(S) -> S] : Injective(f)}

FilterMinimums == {0, 2}

HostFilters ==
    [maxHosts : 1..NumHosts, minimum : FilterMinimums]

(***************************************************************************)
(* The operations of Pool, each run to completion.                         *)
(***************************************************************************)
InitPool ==
    /\ hostOfferIndex = EmptyPool.index
    /\ timedOffers = EmptyPool.timed
    /\ readyResources = 0
    /\ placingResources = 0
    /\ availableHosts = 0
    /\ now = 0
    /\ last = Op("Init", "ok", FALSE)
    /\ addMark = NoAdd

\* The tracker operation that ran last: the task it ran on, the state the
\* task was in, the state asked for, and the allocation before it ran.
TrackerOp(name, e, id, from, to, before) ==
    [op |-> name, err |-> e, id |-> id, from |-> from, to |-> to,
     before |-> before]

NoTrackerOp == TrackerOp("Init", FALSE, 0, "none", "none", 0)

InitTracker ==
    /\ tasks = <<>>
    /\ allocation = 0
    /\ lastT = NoTrackerOp

NumClients == 2

Clients == 1..NumClients

\* The locals of a call: of a ClaimForPlace the filter, the order of the
\* range, the hosts matched; of an AddOffers the offers and the status the
\* summary answered; of both the position and the counter value read.
Idle ==
    [pc |-> "idle", filter |-> [maxHosts |-> 1, minimum |-> 0],
     order |-> <<>>, i |-> 1, hostOffers |-> <<>>, curr |-> 0,
     offers |-> <<>>, status |-> ReadyOffer]

InitPlace ==
    /\ callers = [c \in Clients |-> Idle]
    /\ claims = [h \in Hosts |-> 0]
    /\ added = {}

\* No tree is built and nothing is enqueued.
MaxPriority == 1

Priorities == 0..MaxPriority

InitRespool ==
    /\ allNodes = <<>>
    /\ lastTree = [op |-> "Init", err |-> FALSE]
    /\ pendingQueue = [p \in Priorities |-> <<>>]
    /\ enqueued = <<>>
    /\ dequeued = <<>>

(***************************************************************************)
(* The job manager's task store, as the status updater sees it.  A task    *)
(* carries its runtime state, its failures_count and the max_failures of   *)
(* its restart policy (0 when the task has no restart policy).             *)
(***************************************************************************)
NumJobTasks == 2
MaxFailures == 2

JobTasks == 1..NumJobTasks

TaskInfo(state, failuresCount, maxFailures) ==
    [state |-> state, failuresCount |-> failuresCount,
     maxFailures |-> maxFailures]

NoUpdate ==
    [op |-> "Init", task |-> 0, state |-> "", before |-> TaskInfo("", 0, 0),
     jobConfigErr |-> FALSE, enqueued |-> FALSE, message |-> "",
     err |-> ""]

InitUpdate ==
    /\ taskInfos = [t \in JobTasks |-> TaskInfo("INITIALIZED", 0, 0)]
    /\ resmgrGangs = [t \in JobTasks |-> 0]
    /\ lastU = NoUpdate

(***************************************************************************)
(* The event stream of the master and its forwarder to the resource        *)
(* manager, with the resource manager's side as the test double keeps it.  *)
(***************************************************************************)
MaxEvents == 5

NoForward == [op |-> "Init", err |-> FALSE, failed |-> FALSE]

InitForwarder ==
    /\ streamEvents = 0
    /\ progress = 0
    /\ clientEvents = <<>>
    /\ returnError = FALSE
    /\ lastF = NoForward

(***************************************************************************)
(* The counters of the offer pool's metrics that CleanReservationResources *)
(* moves.                                                                  *)
(***************************************************************************)
NoClean ==
    [op |-> "Init", cached |-> {}, failing |-> {}, calls |-> <<>>,
     unreserveOffer |-> 0, unreserveOfferFail |-> 0]

InitMetrics ==
    /\ metrics = [CleanReservationResource |-> 0, UnreserveOffer |-> 0,
                  UnreserveOfferFail |-> 0]
    /\ lastClean = NoClean

(***************************************************************************)
(* The stateless job service: its leader flag, the job store, the job      *)
(* cache, the secret store and the goal state engine's queue.              *)
(***************************************************************************)
NumJobs == 1

JobIds == 1..NumJobs

\* The runtime of a job that is not in the store.
NoJob == [state |-> "none", workflow |-> "none"]

\* before: the job's runtime before the call; stored, cached, secret and
\* enqueued: whether the call changed the job store, the job cache, the
\* secret store and the queue of the goal state engine.
NoCall ==
    [op |-> "Init", job |-> 0, err |-> "", leader |-> FALSE,
     respool |-> "", secrets |-> FALSE, before |-> NoJob,
     stored |-> FALSE, cached |-> FALSE, secret |-> FALSE,
     enqueued |-> FALSE, calls |-> <<>>]

InitJobSvc ==
    /\ isLeader = FALSE
    /\ jobStore = [j \in JobIds |-> NoJob]
    /\ jobFactory = {}
    /\ secretStore = {}
    /\ goalStateDriver = [jobs |-> {}, updates |-> {}]
    /\ lastJ = NoCall

\* No caller is inside an operation of the pool.
IdleThread == [op |-> "", todo |-> <<>>, held |-> <<>>]

InitLock == threads = [c \in Clients |-> IdleThread]

NoAcquire ==
    [op |-> "Init", claimed |-> {}, offers |-> {}, released |-> {},
     reason |-> ""]

InitOfferSvc ==
    /\ placingHosts = {}
    /\ acquiredHosts = {}
    /\ lastA = NoAcquire

NoClaimCall ==
    [op |-> "Init", client |-> 0, host |-> 0, ok |-> FALSE,
     current |-> FALSE]

InitClaim ==
    /\ claimant = [h \in Hosts |-> 0]
    /\ claimedHosts = [c \in Clients |-> {}]
    /\ lastC = NoClaimCall

NoRace ==
    [op |-> "Init", offer |-> 0, found |-> FALSE, held |-> FALSE,
     declined |-> {}]

InitRace ==
    /\ launchedOffers = {}
    /\ lastR = NoRace

\* Nothing was converted.
InitConv ==
    /\ instIDs = <<>>
    /\ instanceIDRange = <<>>
    /\ converted = FALSE

InitExt ==
    /\ InitUpdate
    /\ InitForwarder
    /\ InitMetrics
    /\ InitJobSvc
    /\ InitLock
    /\ InitOfferSvc
    /\ InitClaim
    /\ InitRace
    /\ InitConv

Init == InitPool /\ InitTracker /\ InitPlace /\ InitRespool /\ InitExt

DoAddOffers ==
    \E offers \in Batches({o \in OfferIds : ~InPool(o)}) :
        LET h == OfferHostname(offers[1])
        IN  /\ SetPool(AddOffers(Pool, offers, now))
            /\ last' = Op("AddOffers", "ok", FALSE)
            /\ addMark' =
                 IF Len(offers) = 1
                 THEN [phase |-> "added", offer |-> offers[1], host |-> h,
                       lone |-> \/ h \notin DOMAIN hostOfferIndex
                                \/ hostOfferIndex[h].unreservedOffers = {}]
                 ELSE NoAdd
            /\ now' = now

DoRescindOffer ==
    \E o \in OfferIds :
        LET r == RescindOffer(Pool, o)
        IN  /\ SetPool(r.pool)
            /\ last' = Op("RescindOffer", "ok", r.found)
            /\ addMark' =
                 IF addMark.offer = o /\ addMark.phase = "added"
                 THEN [addMark EXCEPT !.phase = "roundtrip"]
                 ELSE IF addMark.offer = o /\ addMark.phase = "claimed"
                 THEN [addMark EXCEPT !.phase = "rescinded"]
                 ELSE NoAdd
            /\ now' = now

DoRemoveExpiredOffers ==
    LET r == RemoveExpiredOffers(Pool, now)
    IN  /\ SetPool(r.pool)
        /\ last' = Op("RemoveExpiredOffers",
                      IF r.panic THEN "panic" ELSE "ok",
                      DOMAIN r.declined # {})
        /\ addMark' = NoAdd
        /\ now' = now

DoClear ==
    /\ SetPool(Clear(Pool))
    /\ last' = Op("Clear", "ok", FALSE)
    /\ addMark' = NoAdd
    /\ now' = now

DoClaimForPlace ==
    \E filter \in HostFilters, order \in Orders(DOMAIN hostOfferIndex) :
        LET r == ClaimForPlace(Pool, filter, order, now)
            matched == DOMAIN r.hostOffers
        IN  /\ SetPool(r.pool)
            /\ last' = Op("ClaimForPlace", "ok", matched # {})
            /\ addMark' =
                 IF addMark.phase = "added" /\ matched = {addMark.host}
                 THEN [addMark EXCEPT !.phase = "claimed"]
                 ELSE NoAdd
            /\ now' = now

DoClaimForLaunch ==
    \E hostname \in Hosts, useReservedOffers \in BOOLEAN :
        LET r == ClaimForLaunch(Pool, hostname, useReservedOffers)
        IN  /\ SetPool(r.pool)
            /\ last' = Op(IF useReservedOffers THEN "ClaimReservedForLaunch"
                          ELSE "ClaimForLaunch",
                          IF r.panic THEN "panic"
                          ELSE IF r.err THEN "err" ELSE "ok",
                          r.offers # {})
            /\ addMark' =
                 IF /\ addMark.phase = "rescinded"
                    /\ addMark.host = hostname
                    /\ ~useReservedOffers
                 THEN [addMark EXCEPT !.phase = "launched"]
                 ELSE NoAdd
            /\ now' = now

DoReturnUnusedOffers ==
    \E hostname \in Hosts :
        LET r == ReturnUnusedOffers(Pool, hostname)
        IN  /\ SetPool(r.pool)
            /\ last' = Op("ReturnUnusedOffers",
                          IF r.err THEN "err" ELSE "ok", FALSE)
            /\ addMark' =
                 IF addMark.phase = "rescinded" /\ addMark.host = hostname
                 THEN [addMark EXCEPT !.phase = "returned"]
                 ELSE NoAdd
            /\ now' = now

DoResetExpiredHostSummaries ==
    LET r == ResetExpiredHostSummaries(Pool, now)
    IN  /\ SetPool(r.pool)
        /\ last' = Op("ResetExpiredHostSummaries", "ok", r.hostnames # {})
        /\ addMark' = NoAdd
        /\ now' = now

DoCleanReservationResources ==
    LET r == CleanReservationResources(Pool)
    IN  /\ SetPool(r.pool)
        /\ last' = Op("CleanReservationResources", "ok",
                      r.unreserved # {})
        /\ addMark' = NoAdd
        /\ now' = now

\* One tick of the clock: every stored time is one tick nearer, or, once
\* passed, stays passed (Passed is all that After() can tell of it).
Passed == 0 - 1

Earlier(t) == IF t > Passed THEN t - 1 ELSE Passed

Tick ==
    /\ hostOfferIndex' =
         [h \in DOMAIN hostOfferIndex |->
            [hostOfferIndex[h] EXCEPT
                !.statusPlacingOfferExpiration = Earlier(@)]]
    /\ timedOffers' =
         [o \in DOMAIN timedOffers |->
            [timedOffers[o] EXCEPT !.Expiration = Earlier(@)]]
    /\ \/ hostOfferIndex' # hostOfferIndex
       \/ timedOffers' # timedOffers
    /\ UNCHANGED <<readyResources, placingResources, availableHosts, now,
                   last, addMark>>
    /\ UNCHANGED <<trackerVars, placeVars, respoolVars, extVars>>

Next ==
    \/ DoAddOffers
    \/ DoRescindOffer
    \/ DoRemoveExpiredOffers
    \/ DoClear
    \/ DoClaimForPlace
    \/ DoClaimForLaunch
    \/ DoReturnUnusedOffers
    \/ DoResetExpiredHostSummaries
    \/ DoCleanReservationResources
    \/ Tick

Spec == Init /\ [][Next]_vars

(***************************************************************************)
(* Properties of the offer pool.                                           *)
(***************************************************************************)
HostsIn(P, status) == {h \in DOMAIN P.index : P.index[h].status = status}

RECURSIVE UnreservedOf(_, _)
UnreservedOf(P, hosts) ==
    IF hosts = {} THEN 0
    ELSE LET h == CHOOSE x \in hosts : TRUE
         IN  FromOfferMap(P.index[h].unreservedOffers)
               + UnreservedOf(P, hosts \ {h})

Accounted(P) ==
    /\ P.placing = UnreservedOf(P, HostsIn(P, PlacingOffer))
    /\ P.ready = UnreservedOf(P, HostsIn(P, ReadyOffer))

Holders(P, o) ==
    {h \in DOMAIN P.index :
        o \in P.index[h].unreservedOffers \cup P.index[h].reservedOffers}

\* C2: after any sequence of completed pool operations, placing_resources is
\* the sum of the unreserved offers of the PLACING hosts and ready_resources
\* the sum over the READY hosts (so a PLACING host's offers are never part of
\* ready_resources).
C2_Accounting == Accounted(Pool)

\* C3: every offer id in timed_offers is in the offer bag of exactly one host
\* summary, the one of the hostname its timed_offers entry records.
C3_TimedOffersHeld ==
    \A o \in DOMAIN timedOffers :
        Holders(Pool, o) = {timedOffers[o].Hostname}

\* ReturnUnusedOffers for every host of a claim: [err, pool].
RECURSIVE ReturnAll(_, _)
ReturnAll(P, hosts) ==
    IF hosts = {} THEN [err |-> FALSE, pool |-> P]
    ELSE LET h == CHOOSE x \in hosts : TRUE
             r == ReturnUnusedOffers(P, h)
             rest == ReturnAll(r.pool, hosts \ {h})
         IN  [err |-> r.err \/ rest.err, pool |-> rest.pool]

SameOffers(s, t) ==
    /\ s.unreservedOffers = t.unreservedOffers
    /\ s.reservedOffers = t.reservedOffers

\* The claimed hosts are READY again with the offers of pool Q (the pool the
\* claim started from, with whatever was added or rescinded since).
Restored(R, Q, hosts) ==
    \A h \in hosts :
        /\ R.index[h].status = ReadyOffer
        /\ SameOffers(R.index[h], Q.index[h])

\* C7: from any pool, ClaimForPlace followed by ReturnUnusedOffers for every
\* returned host leaves each such host READY with the offers it had and
\* ready_resources and placing_resources at their values from before the
\* claim; with one offer added or rescinded between the claim and the
\* returns, the hosts are READY with the offers still held and both counters
\* are what the same change gives on the pool the claim started from.
C7_ClaimReturnRestores ==
    \A filter \in HostFilters, order \in Orders(DOMAIN hostOfferIndex) :
        LET c == ClaimForPlace(Pool, filter, order, now)
            hosts == DOMAIN c.hostOffers
            r == ReturnAll(c.pool, hosts)
        IN  /\ ~r.err
            /\ Restored(r.pool, Pool, hosts)
            /\ r.pool.ready = readyResources
            /\ r.pool.placing = placingResources
            /\ \A o \in OfferIds :
                  LET mid == IF InPool(o)
                             THEN RescindOffer(c.pool, o).pool
                             ELSE AddOffers(c.pool, <<o>>, now)
                      \* the same change applied to the pool before the claim
                      ref == IF InPool(o)
                             THEN RescindOffer(Pool, o).pool
                             ELSE AddOffers(Pool, <<o>>, now)
                      t == ReturnAll(mid, hosts)
                  IN  /\ ~t.err
                      /\ Restored(t.pool, ref, hosts)
                      /\ t.pool.ready = ref.ready
                      /\ t.pool.placing = ref.placing

\* C8 as stated: AddOffers([o]) for an offer not in the pool, then
\* RescindOffer(o.id), gives back the pool AddOffers started from.
C8_AddRescindIdentity ==
    \A o \in OfferIds :
        ~InPool(o) =>
            LET r == RescindOffer(AddOffers(Pool, <<o>>, now), o)
            IN  r.found /\ r.pool = Pool

\* C8 amended: the pool is the one AddOffers started from, except that a host
\* without summary before now has one, READY and without offers.
C8_AddRescindLeavesSummary ==
    \A o \in OfferIds :
        ~InPool(o) =>
            LET r == RescindOffer(AddOffers(Pool, <<o>>, now), o)
                h == OfferHostname(o)
            IN  /\ r.found
                /\ r.pool.timed = timedOffers
                /\ r.pool.ready = readyResources
                /\ r.pool.placing = placingResources
                /\ r.pool.avail = availableHosts
                /\ DOMAIN r.pool.index = DOMAIN hostOfferIndex \cup {h}
                /\ \A g \in DOMAIN hostOfferIndex :
                      r.pool.index[g] = hostOfferIndex[g]
                /\ h \notin DOMAIN hostOfferIndex =>
                      /\ r.pool.index[h].status = ReadyOffer
                      /\ r.pool.index[h].unreservedOffers = {}
                      /\ r.pool.index[h].reservedOffers = {}

C8_Witness ==
    /\ addMark.phase = "roundtrip"
    /\ last.op = "RescindOffer"
    /\ last.some
    /\ Holders(Pool, addMark.offer) = {}
    /\ addMark.offer \notin DOMAIN timedOffers

\* C9: an offer o is added to a host h holding no unreserved offer, a
\* ClaimForPlace returns h, and o is rescinded while h is PLACING.  The
\* rescind reports true and takes o's resources out of placing_resources,
\* not out of ready_resources; a ClaimForLaunch on h then succeeds with no
\* offer; and after it, or after ReturnUnusedOffers instead, both counters
\* have their values from before o was added.
C9_RescindWhilePlacing ==
    \A o \in OfferIds, filter \in HostFilters :
      \A order \in Orders(DOMAIN hostOfferIndex \cup {OfferHostname(o)}) :
        LET h == OfferHostname(o)
            lone == \/ h \notin DOMAIN hostOfferIndex
                    \/ hostOfferIndex[h].unreservedOffers = {}
            a == AddOffers(Pool, <<o>>, now)
            c == ClaimForPlace(a, filter, order, now)
            r == RescindOffer(c.pool, o)
            l == ClaimForLaunch(r.pool, h, FALSE)
            u == ReturnUnusedOffers(r.pool, h)
        IN  (~InPool(o) /\ lone /\ DOMAIN c.hostOffers = {h}) =>
              /\ c.pool.index[h].status = PlacingOffer
              /\ r.found
              /\ r.pool.placing = c.pool.placing - FromOffer(o)
              /\ r.pool.ready = c.pool.ready
              /\ ~l.panic /\ ~l.err /\ l.offers = {}
              /\ l.pool.ready = readyResources
              /\ l.pool.placing = placingResources
              /\ ~u.err
              /\ u.pool.ready = readyResources
              /\ u.pool.placing = placingResources

C9_Witness ==
    /\ addMark.phase = "launched"
    /\ addMark.lone
    /\ FromOffer(addMark.offer) > 0
    /\ last.op = "ClaimForLaunch"
    /\ last.res = "ok"
    /\ ~last.some

\* C10: a ClaimForLaunch of unreserved offers that succeeds finds the host
\* PLACING and leaves it READY, returns exactly the unreserved offers the
\* host held, leaves none of them in the summary or in timed_offers, lowers
\* placing_resources by their sum and leaves ready_resources alone.
C10_ClaimForLaunchEffect ==
    \A hostname \in Hosts :
        LET r == ClaimForLaunch(Pool, hostname, FALSE)
        IN  (~r.panic /\ ~r.err) =>
              /\ hostOfferIndex[hostname].status = PlacingOffer
              /\ r.pool.index[hostname].status = ReadyOffer
              /\ r.offers = hostOfferIndex[hostname].unreservedOffers
              /\ \A o \in r.offers :
                    /\ Holders(r.pool, o) = {}
                    /\ o \notin DOMAIN r.pool.timed
              /\ r.pool.placing = placingResources - FromOfferMap(r.offers)
              /\ r.pool.ready = readyResources

\* C11: ClaimForLaunch on a hostname without summary, or whose summary is
\* not PLACING, returns an error without crashing and leaves timed_offers,
\* the summaries, both counters and the available-host count as they were.
C11_ClaimForLaunchRejects ==
    \A hostname \in Hosts :
        LET r == ClaimForLaunch(Pool, hostname, FALSE)
        IN  (\/ hostname \notin DOMAIN hostOfferIndex
             \/ hostOfferIndex[hostname].status # PlacingOffer) =>
              /\ ~r.panic
              /\ r.err
              /\ r.pool = Pool

\* C12: RescindOffer returns true exactly when the offer is in timed_offers;
\* after a true return the offer is in neither timed_offers nor a summary
\* and the counter of the status its host had is lower by the offer's
\* resources, the other counter untouched; for an offer not in the pool it
\* returns false and changes nothing, as does a second rescind.
C12_RescindOffer ==
    \A o \in OfferIds :
        LET r == RescindOffer(Pool, o)
            cached == o \in DOMAIN timedOffers
            h == timedOffers[o].Hostname
        IN  /\ r.found <=> cached
            /\ cached =>
                  /\ h \in DOMAIN hostOfferIndex
                  /\ o \notin DOMAIN r.pool.timed
                  /\ Holders(r.pool, o) = {}
                  /\ hostOfferIndex[h].status = ReadyOffer =>
                        /\ r.pool.ready = readyResources - FromOffer(o)
                        /\ r.pool.placing = placingResources
                  /\ hostOfferIndex[h].status = PlacingOffer =>
                        /\ r.pool.placing = placingResources - FromOffer(o)
                        /\ r.pool.ready = readyResources
            /\ ~cached => r.pool = Pool
            /\ LET again == RescindOffer(r.pool, o)
               IN  ~again.found /\ again.pool = r.pool

\* C13: RemoveExpiredOffers takes out of timed_offers and out of the
\* summaries exactly the offers whose expiration lies before the current
\* time and returns their entries; its second value is the number of
\* entries left in timed_offers; the other offers stay where they are, and
\* on a pool without offers it returns nothing and 0.
C13_RemoveExpiredOffers ==
    LET r == RemoveExpiredOffers(Pool, now)
        expired == {o \in DOMAIN timedOffers :
                       timedOffers[o].Expiration < now}
        kept == OfferIds \ expired
    IN  /\ ~r.panic
        /\ DOMAIN r.declined = expired
        /\ \A o \in expired :
              /\ r.declined[o] = timedOffers[o]
              /\ o \notin DOMAIN r.pool.timed
              /\ Holders(r.pool, o) = {}
        /\ r.valid = Cardinality(DOMAIN r.pool.timed)
        /\ DOMAIN r.pool.timed = DOMAIN timedOffers \ expired
        /\ \A o \in kept :
              /\ o \in DOMAIN timedOffers => r.pool.timed[o] = timedOffers[o]
              /\ Holders(r.pool, o) = Holders(Pool, o)
        /\ timedOffers = <<>> => (r.declined = <<>> /\ r.valid = 0)

\* An offer was removed as expired while a later one stayed in the pool.
C13_Witness ==
    /\ last.op = "RemoveExpiredOffers"
    /\ last.res = "ok"
    /\ last.some
    /\ \E o \in DOMAIN timedOffers :
          /\ timedOffers[o].Expiration >= now
          /\ Holders(Pool, o) # {}

\* C14: ResetExpiredHostSummaries returns exactly the hosts that are PLACING
\* with a status expiration before now; each becomes READY and its
\* unreserved resources move from placing_resources to ready_resources;
\* every other host keeps its summary.
C14_ResetExpiredHostSummaries ==
    LET r == ResetExpiredHostSummaries(Pool, now)
        expired == {h \in DOMAIN hostOfferIndex :
                       /\ hostOfferIndex[h].status = PlacingOffer
                       /\ hostOfferIndex[h].statusPlacingOfferExpiration
                            < now}
        moved == UnreservedOf(Pool, expired)
    IN  /\ r.hostnames = expired
        /\ DOMAIN r.pool.index = DOMAIN hostOfferIndex
        /\ \A h \in expired :
              /\ r.pool.index[h].status = ReadyOffer
              /\ SameOffers(r.pool.index[h], hostOfferIndex[h])
        /\ r.pool.placing = placingResources - moved
        /\ r.pool.ready = readyResources + moved
        /\ \A h \in DOMAIN hostOfferIndex \ expired :
              r.pool.index[h] = hostOfferIndex[h]

\* C15: ClaimForPlace removes no offer: timed_offers, the offers of every
\* summary and the available-host count are as before; the summaries of the
\* returned hosts differ by their status (and its expiration) only, those of
\* the other hosts not at all; the two counters are all else that may move.
C15_ClaimForPlaceKeepsOffers ==
    \A filter \in HostFilters, order \in Orders(DOMAIN hostOfferIndex) :
        LET r == ClaimForPlace(Pool, filter, order, now)
            hosts == DOMAIN r.hostOffers
        IN  /\ r.pool.timed = timedOffers
            /\ Cardinality(DOMAIN r.pool.timed)
                 = Cardinality(DOMAIN timedOffers)
            /\ r.pool.avail = availableHosts
            /\ DOMAIN r.pool.index = DOMAIN hostOfferIndex
            /\ \A h \in DOMAIN hostOfferIndex :
                  /\ SameOffers(r.pool.index[h], hostOfferIndex[h])
                  /\ h \notin hosts => r.pool.index[h] = hostOfferIndex[h]
            /\ \A h \in hosts :
                  /\ r.pool.index[h].status = PlacingOffer
                  /\ \A o \in r.hostOffers[h] :
                        /\ h \in Holders(r.pool, o)
                        /\ o \in DOMAIN timedOffers => o \in DOMAIN r.pool.timed

\* A claim has just returned a host and the offers of that host are still in
\* its summary and in timed_offers.
C15_Witness ==
    /\ last.op = "ClaimForPlace"
    /\ last.some
    /\ \E h \in DOMAIN hostOfferIndex :
          /\ hostOfferIndex[h].status = PlacingOffer
          /\ hostOfferIndex[h].unreservedOffers # {}
          /\ hostOfferIndex[h].unreservedOffers \subseteq DOMAIN timedOffers

\* C16: ReturnUnusedOffers on a host that is not PLACING, or not in the
\* pool, leaves the pool as it was; so a second release of a host changes
\* nothing the first release left.
C16_ReturnUnusedOffersIdempotent ==
    \A hostname \in Hosts :
        LET r == ReturnUnusedOffers(Pool, hostname)
            again == ReturnUnusedOffers(r.pool, hostname)
        IN  /\ (\/ hostname \notin DOMAIN hostOfferIndex
                \/ hostOfferIndex[hostname].status # PlacingOffer) =>
                  r.pool = Pool
            /\ again.pool = r.pool

\* A release was refused for a host that is READY and holds offers.
C16_Witness ==
    /\ last.op = "ReturnUnusedOffers"
    /\ last.res = "err"
    /\ readyResources > 0
    /\ \E h \in DOMAIN hostOfferIndex :
          /\ hostOfferIndex[h].status = ReadyOffer
          /\ hostOfferIndex[h].unreservedOffers # {}

\* The hosts a ClaimForPlace with this filter can take.
Eligible(P, filter) ==
    {h \in DOMAIN P.index :
        /\ HasOffer(P.index[h])
        /\ Contains(UnreservedAmount(P.index[h]), filter.minimum)}

ClaimForPlaceCount(returned, eligible, filter) ==
    /\ Cardinality(returned) <= filter.maxHosts
    /\ Cardinality(eligible) >= filter.maxHosts =>
          Cardinality(returned) = filter.maxHosts

DecCall(resources, delta) == [resources |-> resources, delta |-> delta]

\* The call made when offer o leaves the summary of host h.
removeFromSummaryCalls(P, h, o) ==
    LET r == RemoveMesosOffer(P.index[h], o)
    IN  IF ~r.removed THEN {}
        ELSE IF r.status = ReadyOffer
        THEN {DecCall(P.ready, FromOffer(o))}
        ELSE IF r.status = PlacingOffer
        THEN {DecCall(P.placing, FromOffer(o))}
        ELSE {}

ClaimForPlaceCalls(P, t) ==
    UNION {LET r == ClaimForPlace(P, filter, order, t)
               delta == FromOfferMap(AllOffers(r.hostOffers))
           IN  IF DOMAIN r.hostOffers # {} THEN {DecCall(P.ready, delta)}
               ELSE {} :
           filter \in HostFilters, order \in Orders(DOMAIN P.index)}

ClaimForLaunchCalls(P) ==
    UNION {LET r == ClaimForLaunch(P, h, FALSE)
           IN  IF r.err THEN {}
               ELSE {DecCall(P.placing, FromOfferMap(r.offers))} :
           h \in DOMAIN P.index}

RescindOfferCalls(P) ==
    UNION {IF P.timed[o].Hostname \in DOMAIN P.index
           THEN removeFromSummaryCalls(P, P.timed[o].Hostname, o)
           ELSE {} :
           o \in DOMAIN P.timed}

RemoveExpiredOffersCalls(P, t) ==
    UNION {IF P.timed[o].Hostname \in DOMAIN P.index
           THEN removeFromSummaryCalls(P, P.timed[o].Hostname, o)
           ELSE {} :
           o \in {x \in DOMAIN P.timed : t > P.timed[x].Expiration}}

ReturnUnusedOffersCalls(P) ==
    UNION {LET c == CasStatus(P.index[h], PlacingOffer, ReadyOffer)
           IN  IF c.err THEN {}
               ELSE {DecCall(P.placing, UnreservedAmount(c.summary))} :
           h \in DOMAIN P.index}

ResetExpiredHostSummariesCalls(P, t) ==
    UNION {LET r == ResetExpiredPlacingOfferStatus(P.index[h], t)
           IN  IF r.reset THEN {DecCall(P.placing, r.res)} ELSE {} :
           h \in DOMAIN P.index}

DecCalls(P, t) ==
    ClaimForPlaceCalls(P, t) \cup ClaimForLaunchCalls(P)
        \cup RescindOfferCalls(P) \cup RemoveExpiredOffersCalls(P, t)
        \cup ReturnUnusedOffersCalls(P)
        \cup ResetExpiredHostSummariesCalls(P, t)

\* C28: in no reachable state does an operation call decQuantity with a
\* delta that the counter does not contain, and neither counter is ever
\* negative.
C28_DecQuantityContained ==
    /\ \A c \in DecCalls(Pool, now) : Contains(c.resources, c.delta)
    /\ readyResources >= 0
    /\ placingResources >= 0

(***************************************************************************)
(* The resource manager's task tracker and the state machine of its tasks. *)
(* The tracker keeps, for every tracked task, the state of its RMTask; the *)
(* resource pool of the tasks keeps the allocation.                        *)
(***************************************************************************)
NumTasks == 2
MaxAllocation == 4

TaskIds == 1..NumTasks

\* The resources a task asks for; distinct tasks ask for distinct amounts.
TaskResource(id) == 2 ^ (id - 1)

TaskStates ==
    {"INITIALIZED", "PENDING", "READY", "PLACING", "PLACED", "LAUNCHING",
     "LAUNCHED", "RUNNING", "SUCCEEDED", "FAILED", "KILLED", "LOST",
     "PREEMPTING", "RESERVED"}

\* The declared predecessor set of every state.
Predecessors(s) ==
    CASE s = "INITIALIZED" -> {}
      [] s = "PENDING"     -> {"INITIALIZED"}
      [] s = "READY"       -> {"PENDING", "PLACING", "LAUNCHING", "RESERVED"}
      [] s = "PLACING"     -> {"READY"}
      [] s = "PLACED"      -> {"PLACING", "READY"}
      [] s = "LAUNCHING"   -> {"PLACED"}
      [] s = "LAUNCHED"    -> {"LAUNCHING"}
      [] s = "RUNNING"     -> {"LAUNCHED"}
      [] s = "RESERVED"    -> {"READY", "RUNNING"}
      [] OTHER             -> {"RUNNING"}

\* The states from which MarkItDone gives the resources back to the pool.
DoneSubtracts ==
    {"READY", "PLACING", "PLACED", "LAUNCHING", "LAUNCHED", "RUNNING",
     "RESERVED"}

Tracker == [tasks |-> tasks, allocation |-> allocation]

\* TransitTo accepting every transition.
TransitTo_Any(cur, s) == [err |-> FALSE, state |-> s]

\* RMTask.TransitTo on a task in state cur.
TransitTo(cur, s) ==
    IF cur \in Predecessors(s)
    THEN [err |-> FALSE, state |-> s]
    ELSE [err |-> TRUE, state |-> cur]

AddTask(T, id) ==
    [T EXCEPT !.tasks = [k \in DOMAIN T.tasks \cup {id} |->
                            IF k = id THEN "INITIALIZED" ELSE T.tasks[k]]]

DeleteTask(T, id) ==
    [T EXCEPT !.tasks = Without(T.tasks, {id})]

ClearTracker(T) ==
    [T EXCEPT !.tasks = <<>>]

\* tracker.AddResources: adds the task's resources to its pool's allocation,
\* whatever the state of the task.
AddResources(T, id) ==
    IF id \notin DOMAIN T.tasks
    THEN [err |-> TRUE, tracker |-> T]
    ELSE [err |-> FALSE,
          tracker |-> [T EXCEPT !.allocation = Add(@, TaskResource(id))]]

\* The pool admits the task: PENDING -> READY and the allocation grows.
Admit(T, id) ==
    LET r == TransitTo(T.tasks[id], "READY")
    IN  IF r.err
        THEN [err |-> TRUE, tracker |-> T]
        ELSE [err |-> FALSE,
              tracker |-> AddResources([T EXCEPT !.tasks[id] = r.state],
                                       id).tracker]

\* MarkItDone subtracting whatever the state of the task.
MarkItDone_Always(T, id) ==
    IF id \notin DOMAIN T.tasks
    THEN [err |-> TRUE, tracker |-> T]
    ELSE [err |-> FALSE,
          tracker |-> DeleteTask([T EXCEPT !.allocation =
                                     Subtract(@, TaskResource(id))], id)]

MarkItDone(T, id) ==
    IF id \notin DOMAIN T.tasks
    THEN [err |-> TRUE, tracker |-> T]
    ELSE LET S == IF T.tasks[id] \in DoneSubtracts
                  THEN [T EXCEPT !.allocation =
                                     Subtract(@, TaskResource(id))]
                  ELSE T
         IN  [err |-> FALSE, tracker |-> DeleteTask(S, id)]

StateOf(id) == IF id \in DOMAIN tasks THEN tasks[id] ELSE "none"

SetTracker(T, name, e, id, to) ==
    /\ T.allocation <= MaxAllocation
    /\ tasks' = T.tasks
    /\ allocation' = T.allocation
    /\ lastT' = TrackerOp(name, e, id, StateOf(id), to, allocation)
    /\ UNCHANGED <<poolVars, placeVars, respoolVars, extVars>>

DoAddTask ==
    \E id \in TaskIds \ DOMAIN tasks :
        SetTracker(AddTask(Tracker, id), "AddTask", FALSE, id,
                   "INITIALIZED")

DoTransitTo ==
    \E id \in DOMAIN tasks, s \in TaskStates :
        LET r == TransitTo(tasks[id], s)
        IN  SetTracker([Tracker EXCEPT !.tasks[id] = r.state],
                       "TransitTo", r.err, id, s)

DoAdmit ==
    \E id \in DOMAIN tasks :
        /\ tasks[id] = "PENDING"
        /\ LET r == Admit(Tracker, id)
           IN  SetTracker(r.tracker, "Admit", r.err, id, "READY")

DoAddResources ==
    \E id \in TaskIds :
        LET r == AddResources(Tracker, id)
        IN  SetTracker(r.tracker, "AddResources", r.err, id, "none")

DoMarkItDone ==
    \E id \in TaskIds :
        LET r == MarkItDone(Tracker, id)
        IN  SetTracker(r.tracker, "MarkItDone", r.err, id, "none")

DoDeleteTask ==
    \E id \in DOMAIN tasks :
        SetTracker(DeleteTask(Tracker, id), "DeleteTask", FALSE, id,
                   "none")

DoClearTracker ==
    /\ tasks # <<>>
    /\ SetTracker(ClearTracker(Tracker), "Clear", FALSE, 0, "none")

NextTracker ==
    \/ DoAddTask
    \/ DoTransitTo
    \/ DoAdmit
    \/ DoAddResources
    \/ DoMarkItDone
    \/ DoDeleteTask
    \/ DoClearTracker

SpecTracker == Init /\ [][NextTracker]_vars

(***************************************************************************)
(* Properties of the task tracker.                                         *)
(***************************************************************************)
RECURSIVE SumResources(_)
SumResources(ids) ==
    IF ids = {} THEN 0
    ELSE LET id == CHOOSE x \in ids : TRUE
         IN  TaskResource(id) + SumResources(ids \ {id})

TasksIn(T, states) == {id \in DOMAIN T.tasks : T.tasks[id] \in states}

\* C4: the allocation of the pool is the sum of the resources of its
\* tracked tasks in READY, PLACING, PLACED, LAUNCHING, LAUNCHED, RUNNING,
\* RESERVED or PREEMPTING, and no tracker operation on a task in INITIALIZED
\* or PENDING, AddResources included, changes the allocation.
C4_AllocationLedger ==
    /\ allocation =
         SumResources(TasksIn(Tracker,
             {"READY", "PLACING", "PLACED", "LAUNCHING", "LAUNCHED",
              "RUNNING", "RESERVED", "PREEMPTING"}))
    /\ \A id \in TasksIn(Tracker, {"INITIALIZED", "PENDING"}) :
          /\ AddResources(Tracker, id).tracker.allocation = allocation
          /\ MarkItDone(Tracker, id).tracker.allocation = allocation

\* C5: MarkItDone takes the resources of the task off the allocation of its
\* pool if and only if the task is in READY, PLACING, PLACED, LAUNCHING,
\* LAUNCHED, RUNNING or RESERVED; from INITIALIZED or PENDING the allocation
\* after MarkItDone is the allocation before it.
C5_MarkItDoneSubtracts ==
    \A id \in DOMAIN tasks :
        LET r == MarkItDone(Tracker, id)
            after == r.tracker.allocation
        IN  /\ ~r.err
            /\ id \notin DOMAIN r.tracker.tasks
            /\ IF tasks[id] \in {"READY", "PLACING", "PLACED", "LAUNCHING",
                                 "LAUNCHED", "RUNNING", "RESERVED"}
               THEN after = IF allocation >= TaskResource(id)
                            THEN allocation - TaskResource(id)
                            ELSE 0
               ELSE after = allocation

\* MarkItDone ran on a running task and the allocation fell by the task's
\* resources, and another task that is still pending could be marked done.
C5_Witness ==
    /\ lastT.op = "MarkItDone"
    /\ lastT.from = "RUNNING"
    /\ allocation = lastT.before - TaskResource(lastT.id)
    /\ allocation > 0
    /\ \E id \in DOMAIN tasks : tasks[id] = "PENDING"

\* C6: TransitTo(s) succeeds only from a state in the predecessor set of s,
\* INITIALIZED -> PENDING and PENDING -> READY succeed, and from any other
\* state it returns an error and leaves the state of the task as it was.
C6_TransitToPredecessors ==
    \A id \in DOMAIN tasks :
        /\ \A s \in TaskStates :
              LET r == TransitTo(tasks[id], s)
              IN  IF tasks[id] \in Predecessors(s)
                  THEN ~r.err /\ r.state = s
                  ELSE r.err /\ r.state = tasks[id]
        /\ tasks[id] = "INITIALIZED" =>
              /\ ~TransitTo(tasks[id], "PENDING").err
              /\ TransitTo(tasks[id], "READY").err
        /\ tasks[id] = "PENDING" => ~TransitTo(tasks[id], "READY").err

\* A task went INITIALIZED -> PENDING -> READY and then an illegal
\* transition of it was rejected, leaving it READY.
C6_Witness ==
    /\ lastT.op = "TransitTo"
    /\ lastT.err
    /\ lastT.from = "READY"
    /\ lastT.to = "RUNNING"
    /\ tasks[lastT.id] = "READY"

(***************************************************************************)
(* Concurrent ClaimForPlace.  A call holds the pool's read lock from its   *)
(* first step to its last, so calls of several clients interleave: at     *)
(* every tryMatch, which runs under the lock of the one summary, and at    *)
(* every Get and Set of incQuantity and decQuantity.  AddOffers holds the  *)
(* read lock too and is taken here as a single step; a new summary is      *)
(* inserted under the write lock, that is, only while no call is in        *)
(* progress.  No host is given back: neither ReturnUnusedOffers nor        *)
(* ClaimForLaunch nor ResetExpiredHostSummaries runs.                      *)
(***************************************************************************)
InProgress == {c \in Clients : callers[c].pc # "idle"}

Delta(c) == FromOfferMap(AllOffers(callers[c].hostOffers))

PlaceFrame ==
    UNCHANGED <<trackerVars, respoolVars, extVars, now, last, addMark, added>>

\* The call starts: the matcher is built and the range over the host map
\* fixes an order.
BeginClaimForPlace(c) ==
    /\ callers[c].pc = "idle"
    /\ \E filter \in HostFilters, order \in Orders(DOMAIN hostOfferIndex) :
          callers' = [callers EXCEPT ![c] =
                         [Idle EXCEPT !.pc = "match", !.filter = filter,
                                      !.order = order]]
    /\ UNCHANGED <<hostOfferIndex, timedOffers, readyResources,
                   placingResources, availableHosts, claims>>
    /\ PlaceFrame

\* One round of the loop: tryMatch on the next host, then HasEnoughHosts.
MatchHost(c) ==
    LET me == callers[c]
        h == me.order[me.i]
        m == TryMatch(hostOfferIndex[h], me.filter, now)
        ho == IF m.match THEN (h :> m.offers) @@ me.hostOffers
              ELSE me.hostOffers
        done == HasEnoughHosts(ho, me.filter) \/ me.i = Len(me.order)
    IN  /\ me.pc = "match"
        /\ me.i <= Len(me.order)
        /\ hostOfferIndex' = [hostOfferIndex EXCEPT ![h] = m.summary]
        /\ claims' = [claims EXCEPT ![h] = IF m.match THEN @ + 1 ELSE @]
        /\ callers' = [callers EXCEPT ![c] =
                          IF done /\ DOMAIN ho = {} THEN Idle
                          ELSE [me EXCEPT
                                  !.hostOffers = ho,
                                  !.i = @ + 1,
                                  !.pc = IF done THEN "incGet" ELSE "match"]]
        /\ UNCHANGED <<timedOffers, readyResources, placingResources,
                       availableHosts>>
        /\ PlaceFrame

\* The range over an empty host map: the call returns nothing.
MatchNone(c) ==
    /\ callers[c].pc = "match"
    /\ callers[c].order = <<>>
    /\ callers' = [callers EXCEPT ![c] = Idle]
    /\ UNCHANGED <<hostOfferIndex, timedOffers, readyResources,
                   placingResources, availableHosts, claims>>
    /\ PlaceFrame

\* incQuantity(&p.placingResources, delta): Get, then Set.
IncGet(c) ==
    /\ callers[c].pc = "incGet"
    /\ callers' = [callers EXCEPT ![c].pc = "incSet",
                                  ![c].curr = placingResources]
    /\ UNCHANGED <<hostOfferIndex, timedOffers, readyResources,
                   placingResources, availableHosts, claims>>
    /\ PlaceFrame

IncSet(c) ==
    /\ callers[c].pc = "incSet"
    /\ placingResources' = incQuantity(callers[c].curr, Delta(c))
    /\ callers' = [callers EXCEPT ![c].pc = "decGet", ![c].curr = 0]
    /\ UNCHANGED <<hostOfferIndex, timedOffers, readyResources,
                   availableHosts, claims>>
    /\ PlaceFrame

\* decQuantity(&p.readyResources, delta): Get, then Set; the call returns.
DecGet(c) ==
    /\ callers[c].pc = "decGet"
    /\ callers' = [callers EXCEPT ![c].pc = "decSet",
                                  ![c].curr = readyResources]
    /\ UNCHANGED <<hostOfferIndex, timedOffers, readyResources,
                   placingResources, availableHosts, claims>>
    /\ PlaceFrame

DecSet(c) ==
    /\ callers[c].pc = "decSet"
    /\ readyResources' = decQuantity(callers[c].curr, Delta(c))
    /\ callers' = [callers EXCEPT ![c] = Idle]
    /\ UNCHANGED <<hostOfferIndex, timedOffers, placingResources,
                   availableHosts, claims>>
    /\ PlaceFrame

PlaceAddOffers ==
    \E o \in {x \in OfferIds : ~InPool(x)} :
        LET P == AddOffers(Pool, <<o>>, now)
        IN  /\ OfferHostname(o) \notin DOMAIN hostOfferIndex => InProgress = {}
            /\ hostOfferIndex' = P.index
            /\ timedOffers' = P.timed
            /\ readyResources' = P.ready
            /\ placingResources' = P.placing
            /\ availableHosts' = P.avail
            /\ UNCHANGED placeVars
            /\ PlaceFrame

NextPlace ==
    \/ \E c \in Clients : BeginClaimForPlace(c)
    \/ \E c \in Clients : MatchHost(c)
    \/ \E c \in Clients : MatchNone(c)
    \/ \E c \in Clients : IncGet(c)
    \/ \E c \in Clients : IncSet(c)
    \/ \E c \in Clients : DecGet(c)
    \/ \E c \in Clients : DecSet(c)
    \/ PlaceAddOffers

SpecPlace == Init /\ [][NextPlace]_vars

\* C1: under any interleaving of ClaimForPlace calls, with no host given
\* back in between, no host is in the results of two calls, and a host that
\* is PLACING is not returned by a ClaimForPlace.
C1_NoDoubleClaim ==
    /\ \A h \in Hosts :
          /\ claims[h] <= 1
          /\ claims[h] = 1 =>
                /\ h \in DOMAIN hostOfferIndex
                /\ hostOfferIndex[h].status = PlacingOffer
    /\ \A filter \in HostFilters, order \in Orders(DOMAIN hostOfferIndex) :
          \A h \in DOMAIN ClaimForPlace(Pool, filter, order, now).hostOffers :
              hostOfferIndex[h].status = ReadyOffer

\* C27: ready_resources and placing_resources follow the host summaries
\* under any interleaving of the calls: once every call has returned, each
\* counter is the sum of the unreserved offers of the hosts of its status,
\* no update lost and none applied to a stale value.  Stated for the pools
\* that hold unreserved offers only.
C27_CountersFollowSummaries ==
    (/\ InProgress = {}
     /\ \A o \in DOMAIN timedOffers : ~HasLabeledReservedResources(o))
        => Accounted(Pool)

\* Two calls run at once; one has taken host h, the other has taken another
\* host and its loop now stands at h, which is PLACING and holds offers.
C1_Witness ==
    \E c, d \in Clients :
        LET me == callers[c]
        IN  /\ c # d
            /\ callers[d].pc # "idle"
            /\ me.pc = "match"
            /\ me.i <= Len(me.order)
            /\ DOMAIN me.hostOffers # {}
            /\ me.order[me.i] \in DOMAIN callers[d].hostOffers
            /\ hostOfferIndex[me.order[me.i]].status = PlacingOffer
            /\ hostOfferIndex[me.order[me.i]].unreservedOffers # {}
            /\ claims[me.order[me.i]] = 1

(***************************************************************************)
(* Concurrent AddOffers.  tryAddOffer runs under the pool's read lock, so   *)
(* calls of several clients interleave: at the test of the host, at        *)
(* AddMesosOffer (under the lock of the summary), and at the Get and the   *)
(* Set of incQuantity.  addOffer runs under the write lock: alone.  The    *)
(* entries of timedOffers are set last, under their own lock.  The pool    *)
(* starts with READY summaries without offers for some hosts, as earlier   *)
(* offers that were rescinded leave them.  Between the calls a             *)
(* ClaimForPlace may run to completion; no offer is removed.               *)
(***************************************************************************)
AddFrame ==
    UNCHANGED <<trackerVars, respoolVars, extVars, now, last, addMark, claims>>

\* Where a call stands inside the read lock of tryAddOffer.
InTryAddOffer == {"addMesosOffer", "addIncGet", "addIncSet"}

InitAdd ==
    /\ \E S \in SUBSET Hosts : hostOfferIndex = [h \in S |-> New]
    /\ timedOffers = <<>>
    /\ readyResources = 0
    /\ placingResources = 0
    /\ availableHosts = 0
    /\ now = 0
    /\ last = Op("Init", "ok", FALSE)
    /\ addMark = NoAdd
    /\ InitTracker
    /\ InitPlace
    /\ InitRespool
    /\ InitExt

\* The position after offer i of the call: the next offer, or the loop over
\* timedOffers.
AfterOffer(me) ==
    [me EXCEPT !.i = @ + 1, !.curr = 0,
               !.pc = IF me.i = Len(me.offers) THEN "setTimedOffers"
                      ELSE "tryAddOffer"]

\* AddOffers is called with offers no call was given before.
AddBegin(c) ==
    /\ callers[c].pc = "idle"
    /\ \E offers \in Batches(OfferIds \ added) :
          /\ callers' = [callers EXCEPT ![c] =
                            [Idle EXCEPT !.pc = "tryAddOffer",
                                         !.offers = offers]]
          /\ added' = added \cup {offers[k] : k \in 1..Len(offers)}
    /\ UNCHANGED <<hostOfferIndex, timedOffers, readyResources,
                   placingResources, availableHosts>>
    /\ AddFrame

\* tryAddOffer up to AddMesosOffer: the test of the host, and the count of
\* the available hosts.
AddTry(c) ==
    LET me == callers[c]
        h == OfferHostname(me.offers[me.i])
    IN  /\ me.pc = "tryAddOffer"
        /\ IF h \notin DOMAIN hostOfferIndex
           THEN /\ callers' = [callers EXCEPT ![c].pc = "addOffer"]
                /\ UNCHANGED availableHosts
           ELSE /\ callers' = [callers EXCEPT ![c].pc = "addMesosOffer"]
                /\ availableHosts' =
                     IF ~HasAnyOffer(hostOfferIndex[h])
                     THEN Inc(availableHosts) ELSE availableHosts
        /\ UNCHANGED <<hostOfferIndex, timedOffers, readyResources,
                       placingResources, added>>
        /\ AddFrame

AddMesos(c) ==
    LET me == callers[c]
        o == me.offers[me.i]
        h == OfferHostname(o)
    IN  /\ me.pc = "addMesosOffer"
        /\ hostOfferIndex' =
             [hostOfferIndex EXCEPT ![h] = AddMesosOffer(@, o)]
        /\ callers' = [callers EXCEPT
                          ![c].pc = "addIncGet",
                          ![c].status = hostOfferIndex[h].status]
        /\ UNCHANGED <<timedOffers, readyResources, placingResources,
                       availableHosts, added>>
        /\ AddFrame

\* incQuantity on the counter of the status: Get, then Set.
AddIncGet(c) ==
    /\ callers[c].pc = "addIncGet"
    /\ callers' = [callers EXCEPT
                      ![c].pc = "addIncSet",
                      ![c].curr = IF callers[c].status = ReadyOffer
                                  THEN readyResources
                                  ELSE placingResources]
    /\ UNCHANGED <<hostOfferIndex, timedOffers, readyResources,
                   placingResources, availableHosts, added>>
    /\ AddFrame

AddIncSet(c) ==
    LET me == callers[c]
        tmp == incQuantity(me.curr, FromOffer(me.offers[me.i]))
    IN  /\ me.pc = "addIncSet"
        /\ readyResources' =
             IF me.status = ReadyOffer THEN tmp ELSE readyResources
        /\ placingResources' =
             IF me.status = PlacingOffer THEN tmp ELSE placingResources
        /\ callers' = [callers EXCEPT ![c] = AfterOffer(me)]
        /\ UNCHANGED <<hostOfferIndex, timedOffers, availableHosts, added>>
        /\ AddFrame

\* addOffer: the write lock is free once no call is inside tryAddOffer.
AddWrite(c) ==
    LET me == callers[c]
        P == addOffer(Pool, me.offers[me.i])
    IN  /\ me.pc = "addOffer"
        /\ \A d \in Clients \ {c} : callers[d].pc \notin InTryAddOffer
        /\ hostOfferIndex' = P.index
        /\ readyResources' = P.ready
        /\ placingResources' = P.placing
        /\ availableHosts' = P.avail
        /\ callers' = [callers EXCEPT ![c] = AfterOffer(me)]
        /\ UNCHANGED <<timedOffers, added>>
        /\ AddFrame

\* The entries of timedOffers; the call returns.
AddTimed(c) ==
    /\ callers[c].pc = "setTimedOffers"
    /\ timedOffers' =
         setTimedOffers(Pool, callers[c].offers, now + OfferHoldTime).timed
    /\ callers' = [callers EXCEPT ![c] = Idle]
    /\ UNCHANGED <<hostOfferIndex, readyResources, placingResources,
                   availableHosts, added>>
    /\ AddFrame

\* A ClaimForPlace that runs while no AddOffers is in progress.
AddClaimForPlace ==
    /\ InProgress = {}
    /\ \E filter \in HostFilters, order \in Orders(DOMAIN hostOfferIndex) :
          LET r == ClaimForPlace(Pool, filter, order, now)
          IN  /\ DOMAIN r.hostOffers # {}
              /\ hostOfferIndex' = r.pool.index
              /\ readyResources' = r.pool.ready
              /\ placingResources' = r.pool.placing
    /\ UNCHANGED <<timedOffers, availableHosts, callers, added>>
    /\ AddFrame

NextAdd ==
    \/ \E c \in Clients : AddBegin(c)
    \/ \E c \in Clients : AddTry(c)
    \/ \E c \in Clients : AddMesos(c)
    \/ \E c \in Clients : AddIncGet(c)
    \/ \E c \in Clients : AddIncSet(c)
    \/ \E c \in Clients : AddWrite(c)
    \/ \E c \in Clients : AddTimed(c)
    \/ AddClaimForPlace

SpecAdd == InitAdd /\ [][NextAdd]_vars

\* Once every AddOffers call has returned: every hostname offered has its
\* summary, every offer added is in the summary of its host and in no other,
\* and timed_offers has exactly one entry per offer added, naming its host.
AddedOffersHeld ==
    /\ \A o \in added :
          /\ OfferHostname(o) \in DOMAIN hostOfferIndex
          /\ Holders(Pool, o) = {OfferHostname(o)}
          /\ o \in DOMAIN timedOffers
          /\ timedOffers[o].Hostname = OfferHostname(o)
    /\ DOMAIN timedOffers = added

\* C17: after concurrent AddOffers calls with pairwise distinct offer ids
\* have all returned, the offers are held as AddedOffersHeld says and the
\* resources of each of them were added to ready_resources or to
\* placing_resources: the two counters together hold the resources of all
\* the offers added.
C17_ConcurrentAddOffers ==
    InProgress = {} =>
        /\ AddedOffersHeld
        /\ readyResources + placingResources = FromOfferMap(added)

(***************************************************************************)
(* The pending queue of a resource pool: one list of tasks per priority.   *)
(***************************************************************************)
NumQueued == 3
MaxDequeue == 2

QueueTasks == 1..NumQueued

RespoolFrame == UNCHANGED <<poolVars, trackerVars, placeVars, extVars>>

Range(f) == {f[k] : k \in DOMAIN f}

QueueSize(q) == Cardinality(UNION {Range(q[p]) : p \in DOMAIN q})

\* EnqueueTask putting the task at the head of the list of its priority.
EnqueueTask_Front(q, t) == [q EXCEPT ![t.priority] = <<t>> \o @]

\* The task goes to the end of the list of its priority.
EnqueueTask(q, t) == [q EXCEPT ![t.priority] = Append(@, t)]

\* The highest priority that has a task waiting.
HighestPriority(q) ==
    CHOOSE p \in DOMAIN q :
        /\ q[p] # <<>>
        /\ \A r \in DOMAIN q : q[r] # <<>> => r <= p

RECURSIVE dequeueLoop(_, _, _)
dequeueLoop(q, out, n) ==
    IF n = 0 \/ QueueSize(q) = 0 THEN [tasks |-> out, queue |-> q]
    ELSE LET p == HighestPriority(q)
         IN  dequeueLoop([q EXCEPT ![p] = Tail(@)],
                         Append(out, Head(q[p])), n - 1)

\* [err, tasks, queue]: up to limit tasks; an error when nothing waits.
DequeueTasks(q, limit) ==
    IF limit <= 0 \/ QueueSize(q) = 0
    THEN [err |-> TRUE, tasks |-> <<>>, queue |-> q]
    ELSE LET r == dequeueLoop(q, <<>>, limit)
         IN  [err |-> FALSE, tasks |-> r.tasks, queue |-> r.queue]

DoEnqueueTask ==
    \E id \in QueueTasks \ {t.id : t \in Range(enqueued)},
       priority \in Priorities :
        LET t == [id |-> id, priority |-> priority]
        IN  /\ pendingQueue' = EnqueueTask(pendingQueue, t)
            /\ enqueued' = Append(enqueued, t)
            /\ UNCHANGED <<dequeued, allNodes, lastTree>>
            /\ RespoolFrame

DoDequeueTasks ==
    \E limit \in 1..MaxDequeue :
        LET r == DequeueTasks(pendingQueue, limit)
        IN  /\ pendingQueue' = r.queue
            /\ dequeued' = dequeued \o r.tasks
            /\ dequeued' # dequeued
            /\ UNCHANGED <<enqueued, allNodes, lastTree>>
            /\ RespoolFrame

NextQueue == DoEnqueueTask \/ DoDequeueTasks

SpecQueue == Init /\ [][NextQueue]_vars

\* The place of a task in the order of enqueueing.
EnqueuedAt(t) == CHOOSE k \in DOMAIN enqueued : enqueued[k] = t

\* a leaves the queue before b: higher priority, or equal priority and
\* enqueued earlier.
ComesBefore(a, b) ==
    \/ a.priority > b.priority
    \/ a.priority = b.priority /\ EnqueuedAt(a) < EnqueuedAt(b)

Waiting(q) == UNION {Range(q[p]) : p \in DOMAIN q}

\* C19: the tasks a DequeueTasks(n) returns are at most n, come in order of
\* priority descending and, at equal priority, in the order of enqueueing,
\* and are the first in that order of all the tasks waiting; every task
\* enqueued is either waiting or was dequeued, and was dequeued once.
C19_PendingQueueOrder ==
    /\ \A limit \in 1..MaxDequeue :
          LET r == DequeueTasks(pendingQueue, limit)
              n == Len(r.tasks)
          IN  /\ n <= limit
              /\ n = IF QueueSize(pendingQueue) < limit
                     THEN QueueSize(pendingQueue) ELSE limit
              /\ \A i, j \in 1..n :
                    i < j => ComesBefore(r.tasks[i], r.tasks[j])
              /\ \A i \in 1..n, t \in Waiting(r.queue) :
                    ComesBefore(r.tasks[i], t)
              /\ Waiting(r.queue) = Waiting(pendingQueue) \ Range(r.tasks)
              /\ Range(r.tasks) \subseteq Waiting(pendingQueue)
    /\ Injective(dequeued)
    /\ Range(dequeued) \cap Waiting(pendingQueue) = {}
    /\ Range(dequeued) \cup Waiting(pendingQueue) = Range(enqueued)

\* All the tasks were dequeued; one of higher priority came out before one
\* enqueued earlier, and two of equal priority in the order of enqueueing.
C19_Witness ==
    /\ Len(dequeued) = NumQueued
    /\ \E i, j \in DOMAIN dequeued :
          /\ i < j
          /\ dequeued[i].priority > dequeued[j].priority
          /\ EnqueuedAt(dequeued[i]) > EnqueuedAt(dequeued[j])
    /\ \E i, j \in DOMAIN dequeued :
          /\ i < j
          /\ dequeued[i].priority = dequeued[j].priority
          /\ EnqueuedAt(dequeued[i]) < EnqueuedAt(dequeued[j])

(***************************************************************************)
(* The resource-pool tree.  A pool config names the parent of the pool and *)
(* its reservation (one resource kind; the kinds are independent).  The    *)
(* root has no parent.                                                     *)
(***************************************************************************)
NumPools == 3
MaxReservation == 2

RootResPoolID == 0

NoParent == 0 - 1

PoolIds == 0..NumPools

ResourcePoolConfigs ==
    [parent : {NoParent} \cup PoolIds, reservation : 1..MaxReservation]

\* The config maps the store may hold: the root and some pools, each under
\* a pool of the map (the parent of a pool has a smaller id, so the configs
\* form a tree).
StoredConfigs ==
    UNION {{cfgs \in [ids \cup {RootResPoolID} -> ResourcePoolConfigs] :
               /\ cfgs[RootResPoolID].parent = NoParent
               /\ \A id \in ids :
                     /\ cfgs[id].parent \in DOMAIN cfgs
                     /\ cfgs[id].parent < id} :
           ids \in SUBSET (PoolIds \ {RootResPoolID})}

Children(tree, id) == {c \in DOMAIN tree : tree[c].parent = id}

RECURSIVE SumReservation(_, _)
SumReservation(tree, ids) ==
    IF ids = {} THEN 0
    ELSE LET id == CHOOSE x \in ids : TRUE
         IN  tree[id].reservation + SumReservation(tree, ids \ {id})

\* The children of every pool reserve no more than the pool.
ReservationSumHolds(tree) ==
    \A id \in DOMAIN tree :
        SumReservation(tree, Children(tree, id)) <= tree[id].reservation

\* Start: the tree is built from the stored configs, [err, tree].
Start(configs) == [err |-> FALSE, tree |-> configs]

\* The tree with the config of pool id set.
WithConfig(tree, id, config) ==
    [k \in DOMAIN tree \cup {id} |-> IF k = id THEN config ELSE tree[k]]

\* Upsert: [err, tree].  The config of an existing pool is replaced, a new
\* pool is put under its parent; a config that names no parent in the tree,
\* moves a pool, or breaks the reservation sums is refused.
Upsert(tree, id, config) ==
    IF \/ id = RootResPoolID /\ config.parent # NoParent
       \/ id # RootResPoolID /\ config.parent \notin DOMAIN tree \ {id}
       \/ id \in DOMAIN tree /\ config.parent # tree[id].parent
       \/ ~ReservationSumHolds(WithConfig(tree, id, config))
    THEN [err |-> TRUE, tree |-> tree]
    ELSE [err |-> FALSE, tree |-> WithConfig(tree, id, config)]

TreeFrame ==
    /\ UNCHANGED <<pendingQueue, enqueued, dequeued>>
    /\ RespoolFrame

DoStart ==
    \E configs \in StoredConfigs :
        LET r == Start(configs)
        IN  /\ allNodes' = r.tree
            /\ lastTree' = [op |-> "Start", err |-> r.err]
            /\ TreeFrame

DoStop ==
    /\ allNodes # <<>>
    /\ allNodes' = <<>>
    /\ lastTree' = [op |-> "Stop", err |-> FALSE]
    /\ TreeFrame

DoUpsert ==
    \E id \in PoolIds, config \in ResourcePoolConfigs :
        LET r == Upsert(allNodes, id, config)
        IN  /\ allNodes # <<>>
            /\ allNodes' = r.tree
            /\ lastTree' = [op |-> "Upsert", err |-> r.err]
            /\ TreeFrame

NextTree == DoStart \/ DoStop \/ DoUpsert

SpecTree == Init /\ [][NextTree]_vars

\* C20: once the tree is started and after any Upserts, the children of
\* every pool reserve no more than the pool; an Upsert that would break
\* this is refused and leaves the tree as it was; an Upsert that keeps it,
\* of an existing pool or of a new pool under an existing parent, succeeds.
C20_ReservationSum ==
    /\ ReservationSumHolds(allNodes)
    /\ allNodes # <<>> =>
          \A id \in PoolIds, config \in ResourcePoolConfigs :
              LET r == Upsert(allNodes, id, config)
                  known == \/ id = RootResPoolID /\ config.parent = NoParent
                           \/ /\ id \in DOMAIN allNodes \ {RootResPoolID}
                              /\ config.parent = allNodes[id].parent
                           \/ /\ id \notin DOMAIN allNodes
                              /\ config.parent \in DOMAIN allNodes
              IN  /\ ~ReservationSumHolds(WithConfig(allNodes, id, config))
                        => (r.err /\ r.tree = allNodes)
                  /\ (known /\ ReservationSumHolds(
                                  WithConfig(allNodes, id, config)))
                        => (~r.err
                            /\ r.tree = WithConfig(allNodes, id, config))

(***************************************************************************)
(* The status updater of the job manager.  ProcessStatusUpdate reads the   *)
(* task, and on a FAILED update of a task with retries left it reads the   *)
(* job config, enqueues the task's gang to the resource manager and stores *)
(* the task as INITIALIZED with one more failure; any other update stores  *)
(* the state that was reported.                                            *)
(***************************************************************************)
UpdateStates == {"RUNNING", "FAILED", "SUCCEEDED"}

TerminalStates == {"FAILED", "SUCCEEDED"}

\* The task as UpdateTask stores it, and whether EnqueueGangs was called.
\* jobConfigErr: GetJobConfig returned an error.
\* message: the runtime message stored with the task, the status's own
\* ("Reported") or "Rescheduled due to task failure status: ..."
\* ("Rescheduled"); err: the error ProcessStatusUpdate returns.
ProcessStatusUpdate_FailOnConfigErr(info, state, jobConfigErr) ==
    IF state = "FAILED" /\ info.failuresCount < info.maxFailures
    THEN IF jobConfigErr
         THEN [info |-> info, enqueued |-> FALSE, message |-> "",
               err |-> "testError"]
         ELSE [info |-> [info EXCEPT !.state = "INITIALIZED",
                                     !.failuresCount = @ + 1],
               enqueued |-> TRUE, message |-> "Rescheduled", err |-> ""]
    ELSE [info |-> [info EXCEPT !.state = state], enqueued |-> FALSE,
          message |-> "Reported", err |-> ""]

ProcessStatusUpdate(info, state, jobConfigErr) ==
    IF state = "FAILED" /\ info.failuresCount < info.maxFailures
    THEN [info |-> [info EXCEPT !.state = "INITIALIZED",
                                !.failuresCount = @ + 1],
          enqueued |-> ~jobConfigErr, message |-> "Rescheduled",
          err |-> ""]
    ELSE [info |-> [info EXCEPT !.state = state], enqueued |-> FALSE,
          message |-> "Reported", err |-> ""]

\* A status update of a task that is not terminal arrives from the stream.
DoProcessStatusUpdate ==
    \E t \in JobTasks, state \in UpdateStates, jobConfigErr \in BOOLEAN :
        LET r == ProcessStatusUpdate(taskInfos[t], state, jobConfigErr)
        IN  /\ taskInfos[t].state \notin TerminalStates
            /\ taskInfos' = [taskInfos EXCEPT ![t] = r.info]
            /\ resmgrGangs' = [resmgrGangs EXCEPT
                                  ![t] = IF r.enqueued THEN @ + 1 ELSE @]
            /\ lastU' = [op |-> "ProcessStatusUpdate", task |-> t,
                         state |-> state, before |-> taskInfos[t],
                         jobConfigErr |-> jobConfigErr,
                         enqueued |-> r.enqueued, message |-> r.message,
                         err |-> r.err]
            /\ UpdateFrame

\* The tasks are created with their restart policies.
InitStatusUpdate ==
    /\ InitPool
    /\ InitTracker
    /\ InitPlace
    /\ InitRespool
    /\ taskInfos \in
          [JobTasks -> {TaskInfo("INITIALIZED", 0, m) : m \in 0..MaxFailures}]
    /\ resmgrGangs = [t \in JobTasks |-> 0]
    /\ lastU = NoUpdate
    /\ InitForwarder
    /\ InitMetrics
    /\ InitJobSvc
    /\ InitLock
    /\ InitOfferSvc
    /\ InitClaim
    /\ InitRace
    /\ InitConv

NextUpdate == DoProcessStatusUpdate

SpecUpdate == InitStatusUpdate /\ [][NextUpdate]_vars

\* C21: a FAILED update of a task whose failures_count is below its
\* max_failures enqueues the task's gang and stores the task as INITIALIZED
\* with failures_count one higher; with no retry left the task is stored as
\* FAILED and nothing is enqueued; a task is enqueued at most max_failures
\* times.
C21_RetryOnFailure ==
    /\ (lastU.op = "ProcessStatusUpdate" /\ lastU.state = "FAILED") =>
          LET before == lastU.before
              after == taskInfos[lastU.task]
          IN  IF before.failuresCount < before.maxFailures
              THEN /\ lastU.enqueued
                   /\ after.state = "INITIALIZED"
                   /\ after.failuresCount = before.failuresCount + 1
              ELSE /\ ~lastU.enqueued
                   /\ after.state = "FAILED"
                   /\ after.failuresCount = before.failuresCount
    /\ \A t \in JobTasks : resmgrGangs[t] <= taskInfos[t].maxFailures

\* A FAILED update of a task with retries left met a job config that could
\* not be read.
RetryWithoutJobConfig ==
    /\ lastU.op = "ProcessStatusUpdate"
    /\ lastU.state = "FAILED"
    /\ lastU.before.failuresCount < lastU.before.maxFailures
    /\ lastU.jobConfigErr

\* C39: when the job config cannot be read while a FAILED update of a task
\* with retries left is handled, no gang is enqueued to the resource
\* manager, the task is stored as INITIALIZED with failures_count one
\* higher and the reschedule message, and no error is returned.
C39_ConfigErrorStillPersists ==
    RetryWithoutJobConfig =>
        /\ ~lastU.enqueued
        /\ taskInfos[lastU.task].state = "INITIALIZED"
        /\ taskInfos[lastU.task].failuresCount
              = lastU.before.failuresCount + 1
        /\ lastU.message = "Rescheduled"
        /\ lastU.err = ""

\* A task that had failed once before failed again while the job config
\* could not be read.
C39_Witness ==
    /\ RetryWithoutJobConfig
    /\ lastU.before.failuresCount = 1
    /\ taskInfos[lastU.task].failuresCount = 2
    /\ resmgrGangs[lastU.task] <= 1

(***************************************************************************)
(* The event forwarder.  AddStatusUpdate gives the event the next offset   *)
(* of the stream.  The stream client hands the forwarder the events it has *)
(* not passed on yet, in stream order; the forwarder sends them in one     *)
(* NotifyTaskUpdates call and moves on only when the call succeeded, else  *)
(* it waits errorWaitInterval and the same events are handed to it again.  *)
(***************************************************************************)
\* The offsets from..upto-1.
Offsets(from, upto) == [i \in 1..(upto - from) |-> from + i - 1]

\* MockJSONClient.Call: the events are appended unless returnError is set.
Call_AppendOnError(events, err, batch) ==
    [err |-> err, events |-> events \o batch]

Call(events, err, batch) ==
    IF err THEN [err |-> TRUE, events |-> events]
    ELSE [err |-> FALSE, events |-> events \o batch]

\* The forwarder passes on the events from..upto-1.
OnEvents(events, from, upto, err) ==
    LET r == Call(events, err, Offsets(from, upto))
    IN  [err |-> r.err, events |-> r.events,
         progress |-> IF r.err THEN from ELSE upto]

DoAddStatusUpdate ==
    /\ streamEvents < MaxEvents
    /\ streamEvents' = streamEvents + 1
    /\ lastF' = [lastF EXCEPT !.op = "AddStatusUpdate", !.err = FALSE]
    /\ UNCHANGED <<progress, clientEvents, returnError>>
    /\ ForwarderFrame

DoSetError ==
    \E errorFlag \in BOOLEAN :
        /\ returnError' = errorFlag
        /\ lastF' = [lastF EXCEPT !.op = "setError", !.err = FALSE]
        /\ UNCHANGED <<streamEvents, progress, clientEvents>>
        /\ ForwarderFrame

DoOnEvents ==
    \E upto \in (progress + 1)..streamEvents :
        LET r == OnEvents(clientEvents, progress, upto, returnError)
        IN  /\ clientEvents' = r.events
            /\ progress' = r.progress
            /\ lastF' = [op |-> "OnEvents", err |-> r.err,
                         failed |-> lastF.failed \/ r.err]
            /\ UNCHANGED <<streamEvents, returnError>>
            /\ ForwarderFrame

NextForwarder == DoAddStatusUpdate \/ DoSetError \/ DoOnEvents

\* The forwarder runs in a loop of its own: events that wait are sent.
SpecForwarder ==
    Init /\ [][NextForwarder]_vars /\ WF_vars(DoOnEvents)

\* C22: the resource manager gets the events in stream order with the
\* offsets 0, 1, 2, ..., each once; while the call fails it gets none; and
\* every event of the stream is delivered once the call succeeds, unless it
\* fails again first.
C22_ForwarderDelivers ==
    /\ [](/\ clientEvents = Offsets(0, Len(clientEvents))
          /\ Len(clientEvents) <= streamEvents)
    /\ [][returnError => clientEvents' = clientEvents]_vars
    /\ \A n \in 1..MaxEvents :
          (streamEvents >= n /\ ~returnError)
              ~> (Len(clientEvents) >= n \/ returnError)

\* Calls have failed, events were added, and now every event of the stream
\* has been delivered.
C22_Witness ==
    /\ lastF.op = "OnEvents"
    /\ ~lastF.err
    /\ lastF.failed
    /\ streamEvents >= 3
    /\ Len(clientEvents) = streamEvents

(***************************************************************************)
(* CleanReservationResources with its calls to the broker.  The pool holds *)
(* unreserved offers and label-reserved offers of several hosts; the       *)
(* broker's answer to each ACCEPT call is an input.                        *)
(***************************************************************************)
NumReserved == 2
MaxMetric == 2

\* The label-reserved offers of the catalog, and all the offers added here.
ReservedOfferIds ==
    {o \in 1..(3 * NumReserved) : HasLabeledReservedResources(o)}

CleanOfferIds == OfferIds \cup ReservedOfferIds

\* The reserved offers the summaries hand out.
CachedReserved(P) ==
    UNION {RemoveUnusedReservedOffers(P.index[h]).offers :
              h \in DOMAIN P.index}

\* The orders the two loops can take: host by host.
CleanOrders(P) ==
    {s \in Orders(CachedReserved(P)) :
        \A i, j, k \in DOMAIN s :
            (i < j /\ j < k /\ OfferHostname(s[i]) = OfferHostname(s[k]))
                => OfferHostname(s[j]) = OfferHostname(s[i])}

\* unreserveOffer: the ACCEPT call with the UNRESERVE operation for the
\* offer; the error of the call is returned.
unreserveOffer(o, failing) == [call |-> o, err |-> o \in failing]

\* The loops from offer i of the order on; m: [calls, ok, fail].
RECURSIVE cleanLoop_Return(_, _, _, _)
cleanLoop_Return(order, failing, i, m) ==
    IF i > Len(order) THEN m
    ELSE LET r == unreserveOffer(order[i], failing)
             calls == Append(m.calls, r.call)
         IN  IF r.err
             THEN [m EXCEPT !.calls = calls, !.fail = @ + 1]
             ELSE cleanLoop_Return(order, failing, i + 1,
                                   [m EXCEPT !.calls = calls, !.ok = @ + 1])

RECURSIVE cleanLoop(_, _, _, _)
cleanLoop(order, failing, i, m) ==
    IF i > Len(order) THEN m
    ELSE LET r == unreserveOffer(order[i], failing)
             calls == Append(m.calls, r.call)
         IN  IF r.err
             THEN cleanLoop(order, failing, i + 1,
                            [m EXCEPT !.calls = calls, !.fail = @ + 1])
             ELSE cleanLoop(order, failing, i + 1,
                            [m EXCEPT !.calls = calls, !.ok = @ + 1])

CleanAddOffers ==
    \E o \in {x \in CleanOfferIds : ~InPool(x)} :
        LET P == AddOffers(Pool, <<o>>, now)
        IN  /\ hostOfferIndex' = P.index
            /\ timedOffers' = P.timed
            /\ readyResources' = P.ready
            /\ placingResources' = P.placing
            /\ availableHosts' = P.avail
            /\ lastClean' = [lastClean EXCEPT !.op = "AddOffers"]
            /\ UNCHANGED metrics
            /\ CleanFrame

CleanRescindOffer ==
    \E o \in DOMAIN timedOffers :
        LET P == RescindOffer(Pool, o).pool
        IN  /\ hostOfferIndex' = P.index
            /\ timedOffers' = P.timed
            /\ readyResources' = P.ready
            /\ placingResources' = P.placing
            /\ availableHosts' = P.avail
            /\ lastClean' = [lastClean EXCEPT !.op = "RescindOffer"]
            /\ UNCHANGED metrics
            /\ CleanFrame

CleanUnreserve ==
    \E order \in CleanOrders(Pool), failing \in SUBSET ReservedOfferIds :
        LET P == CleanReservationResources(Pool).pool
            m == cleanLoop(order, failing, 1,
                           [calls |-> <<>>, ok |-> 0, fail |-> 0])
        IN  /\ metrics.CleanReservationResource < MaxMetric
            /\ hostOfferIndex' = P.index
            /\ metrics' =
                  [CleanReservationResource |->
                       metrics.CleanReservationResource + 1,
                   UnreserveOffer |-> metrics.UnreserveOffer + m.ok,
                   UnreserveOfferFail |-> metrics.UnreserveOfferFail + m.fail]
            /\ lastClean' =
                  [op |-> "CleanReservationResources",
                   cached |-> CachedReserved(Pool),
                   failing |-> failing,
                   calls |-> m.calls,
                   unreserveOffer |-> metrics.UnreserveOffer,
                   unreserveOfferFail |-> metrics.UnreserveOfferFail]
            /\ UNCHANGED <<timedOffers, readyResources, placingResources,
                           availableHosts>>
            /\ CleanFrame

NextClean == CleanAddOffers \/ CleanRescindOffer \/ CleanUnreserve

SpecClean == Init /\ [][NextClean]_vars

JobSvc ==
    [leader |-> isLeader, store |-> jobStore, cache |-> jobFactory,
     secrets |-> secretStore, goal |-> goalStateDriver, calls |-> <<>>]

\* The calls a handler makes to the cached job and to the goal state
\* driver, in their order: "Create", "Workflow" with the update id the
\* call returned ("WorkflowID") or without one ("WorkflowNoID"),
\* "EnqueueJob" and "EnqueueUpdate".
Called(S, call) == [S EXCEPT !.calls = Append(@, call)]

\* The resource pools of the resource manager: pool id -> its children.
ResPoolChildren ==
    [p \in {"root", "respool1", "respool11"} |->
        IF p = "root" THEN {"respool1"}
        ELSE IF p = "respool1" THEN {"respool11"}
        ELSE {}]

\* The ids a request can carry: none, the root, a pool with children, a
\* leaf, and a pool the resource manager does not know.
RespoolIds == {"nil", "root", "respool1", "respool11", "respool24"}

\* respoolClient.GetResourcePool: the pool's info, or an empty response.
GetResourcePool(id) ==
    IF id \in DOMAIN ResPoolChildren
    THEN [id |-> id, children |-> ResPoolChildren[id]]
    ELSE [id |-> "nil", children |-> {}]

\* handlerutil.ConvertToYARPCError, on the deferred path of every call: an
\* error that is a yarpc status already is returned as it is.
ConvertToYARPCError(err) == err

\* validateResourcePoolForJobCreation: the error, "" when the pool is fine.
validateResourcePoolForJobCreation_AnyPool(respoolID, rpcErr) ==
    IF respoolID = "nil" THEN "INVALID_ARGUMENT"
    ELSE IF respoolID = "root" THEN "INVALID_ARGUMENT"
    ELSE IF rpcErr THEN "INTERNAL"
    ELSE LET response == GetResourcePool(respoolID)
         IN  IF response.id = "nil" \/ response.id # respoolID
             THEN "NOT_FOUND"
             ELSE ""

validateResourcePoolForJobCreation(respoolID, rpcErr) ==
    IF respoolID = "nil" THEN "INVALID_ARGUMENT"
    ELSE IF respoolID = "root" THEN "INVALID_ARGUMENT"
    ELSE IF rpcErr THEN "INTERNAL"
    ELSE LET response == GetResourcePool(respoolID)
         IN  IF response.id = "nil" \/ response.id # respoolID
             THEN "NOT_FOUND"
             ELSE IF response.children # {}
             THEN "INVALID_ARGUMENT"
             ELSE ""

Return(err, S) == [err |-> ConvertToYARPCError(err), svc |-> S]

AddJob(S, j) == [S EXCEPT !.cache = @ \cup {j}]

EnqueueJob(S, j) ==
    Called([S EXCEPT !.goal.jobs = @ \cup {j}], "EnqueueJob")

EnqueueUpdate(S, j) ==
    Called([S EXCEPT !.goal.updates = @ \cup {j}], "EnqueueUpdate")

\* The handler's steps after a workflow call of the cached job returned
\* (updateID, err): the update is enqueued when the id is not empty, then
\* the error is returned.
AfterWorkflow_EnqueueOnSuccess(S, j, updateID, err) ==
    LET S1 == Called(S, IF updateID THEN "WorkflowID" ELSE "WorkflowNoID")
    IN  Return(err, IF updateID /\ err = "" THEN EnqueueUpdate(S1, j)
                    ELSE S1)

AfterWorkflow(S, j, updateID, err) ==
    LET S1 == Called(S, IF updateID THEN "WorkflowID" ELSE "WorkflowNoID")
    IN  Return(err, IF updateID THEN EnqueueUpdate(S1, j) ELSE S1)

\* in: [validID, respool, rpcErr, specErr, secrets, storeErr]; storeErr is
\* "none", or the store call that fails: "secret", "read" or "write".
CreateJob(S, j, in) ==
    IF ~S.leader THEN Return("UNAVAILABLE", S)
    ELSE IF ~in.validID THEN Return("INVALID_ARGUMENT", S)
    ELSE LET v == validateResourcePoolForJobCreation(in.respool, in.rpcErr)
         IN
    IF v # "" THEN Return(v, S)
    ELSE IF in.specErr THEN Return("INVALID_ARGUMENT", S)
    ELSE IF in.secrets /\ in.storeErr = "secret" THEN Return("INTERNAL", S)
    ELSE LET S1 == IF in.secrets
                   THEN [S EXCEPT !.secrets = @ \cup {j}]
                   ELSE S
             S2 == Called(AddJob(S1, j), "Create")
             exists == S.store[j] # NoJob
             failed == exists \/ in.storeErr = "write"
             S3 == IF failed THEN S2
                   ELSE [S2 EXCEPT !.store[j] =
                            [state |-> "INITIALIZED", workflow |-> "none"]]
             S4 == EnqueueJob(S3, j)
         IN  Return(IF exists THEN "ALREADY_EXISTS"
                    ELSE IF failed THEN "INTERNAL" ELSE "", S4)

\* updateID: whether CreateWorkflow returns an update id when it fails.
ReplaceJob(S, j, in) ==
    IF ~in.validID THEN Return("INVALID_ARGUMENT", S)
    ELSE LET S1 == AddJob(S, j)
         IN
    IF S.store[j] = NoJob THEN Return("NOT_FOUND", S1)
    ELSE IF S.store[j].state = "INITIALIZED" THEN Return("UNAVAILABLE", S1)
    ELSE IF in.specErr THEN Return("INVALID_ARGUMENT", S1)
    ELSE IF in.storeErr = "read" THEN Return("INTERNAL", S1)
    ELSE IF in.storeErr = "write"
    THEN AfterWorkflow(S1, j, in.updateID, "INTERNAL")
    ELSE AfterWorkflow([S1 EXCEPT !.store[j].workflow = "ROLLING_FORWARD"],
                       j, TRUE, "")

\* PauseWorkflow, ResumeWorkflow and AbortWorkflow of the cached job: the
\* state the workflow moves to, "" when the workflow cannot make the move.
WorkflowMove(op, workflow) ==
    IF op = "PauseJobWorkflow" /\ workflow = "ROLLING_FORWARD" THEN "PAUSED"
    ELSE IF op = "ResumeJobWorkflow" /\ workflow = "PAUSED"
    THEN "ROLLING_FORWARD"
    ELSE IF op = "AbortJobWorkflow"
            /\ workflow \in {"ROLLING_FORWARD", "PAUSED"}
    THEN "ABORTED"
    ELSE ""

JobWorkflow(S, op, j, in) ==
    LET S1 == AddJob(S, j)
        to == WorkflowMove(op, S.store[j].workflow)
    IN  IF to = "" THEN AfterWorkflow(S1, j, FALSE, "NOT_FOUND")
        ELSE IF in.storeErr = "write"
        THEN AfterWorkflow(S1, j, in.updateID, "INTERNAL")
        ELSE AfterWorkflow([S1 EXCEPT !.store[j].workflow = to], j, TRUE, "")

PauseJobWorkflow(S, j, in) == JobWorkflow(S, "PauseJobWorkflow", j, in)

ResumeJobWorkflow(S, j, in) == JobWorkflow(S, "ResumeJobWorkflow", j, in)

AbortJobWorkflow(S, j, in) == JobWorkflow(S, "AbortJobWorkflow", j, in)

RefreshJob(S, j, in) ==
    IF ~S.leader THEN Return("UNAVAILABLE", S)
    ELSE IF S.store[j] = NoJob \/ in.storeErr = "read"
    THEN Return("INTERNAL", S)
    ELSE Return("", EnqueueJob(AddJob(S, j), j))

MutatingCalls ==
    {"CreateJob", "ReplaceJob", "PauseJobWorkflow", "ResumeJobWorkflow",
     "AbortJobWorkflow", "RefreshJob"}

Handle(S, op, j, in) ==
    IF op = "CreateJob" THEN CreateJob(S, j, in)
    ELSE IF op = "ReplaceJob" THEN ReplaceJob(S, j, in)
    ELSE IF op = "PauseJobWorkflow" THEN PauseJobWorkflow(S, j, in)
    ELSE IF op = "ResumeJobWorkflow" THEN ResumeJobWorkflow(S, j, in)
    ELSE IF op = "AbortJobWorkflow" THEN AbortJobWorkflow(S, j, in)
    ELSE RefreshJob(S, j, in)

\* The requests of each call, with the failures that can meet it: only the
\* fields the call reads vary.
NoRequest ==
    [validID |-> TRUE, respool |-> "nil", rpcErr |-> FALSE,
     specErr |-> FALSE, secrets |-> FALSE, storeErr |-> "none",
     updateID |-> FALSE]

CreateJobRequests ==
    {[NoRequest EXCEPT !.validID = v, !.respool = p, !.rpcErr = e,
                       !.specErr = c, !.secrets = x, !.storeErr = w] :
        v \in BOOLEAN, p \in RespoolIds, e \in BOOLEAN, c \in BOOLEAN,
        x \in BOOLEAN, w \in {"none", "secret", "write"}}

ReplaceJobRequests ==
    {[NoRequest EXCEPT !.validID = v, !.specErr = c, !.storeErr = w,
                       !.updateID = u] :
        v \in BOOLEAN, c \in BOOLEAN, w \in {"none", "read", "write"},
        u \in BOOLEAN}

WorkflowRequests ==
    {[NoRequest EXCEPT !.storeErr = w, !.updateID = u] :
        w \in {"none", "write"}, u \in BOOLEAN}

RefreshJobRequests ==
    {[NoRequest EXCEPT !.storeErr = w] : w \in {"none", "read"}}

SetJobSvc(r, op, j, in) ==
    /\ isLeader' = r.svc.leader
    /\ jobStore' = r.svc.store
    /\ jobFactory' = r.svc.cache
    /\ secretStore' = r.svc.secrets
    /\ goalStateDriver' = r.svc.goal
    /\ lastJ' = [op |-> op, job |-> j, err |-> r.err, leader |-> isLeader,
                 respool |-> IF op = "CreateJob" THEN in.respool ELSE "",
                 secrets |-> IF op = "CreateJob" THEN in.secrets ELSE FALSE,
                 before |-> jobStore[j],
                 stored |-> r.svc.store # jobStore,
                 cached |-> r.svc.cache # jobFactory,
                 secret |-> r.svc.secrets # secretStore,
                 enqueued |-> r.svc.goal # goalStateDriver,
                 calls |-> r.svc.calls]
    /\ JobFrame

DoCreateJob ==
    \E j \in JobIds, in \in CreateJobRequests :
        SetJobSvc(CreateJob(JobSvc, j, in), "CreateJob", j, in)

DoReplaceJob ==
    \E j \in JobIds, in \in ReplaceJobRequests :
        SetJobSvc(ReplaceJob(JobSvc, j, in), "ReplaceJob", j, in)

DoPauseJobWorkflow ==
    \E j \in JobIds, in \in WorkflowRequests :
        SetJobSvc(PauseJobWorkflow(JobSvc, j, in), "PauseJobWorkflow", j, in)

DoResumeJobWorkflow ==
    \E j \in JobIds, in \in WorkflowRequests :
        SetJobSvc(ResumeJobWorkflow(JobSvc, j, in), "ResumeJobWorkflow", j,
                  in)

DoAbortJobWorkflow ==
    \E j \in JobIds, in \in WorkflowRequests :
        SetJobSvc(AbortJobWorkflow(JobSvc, j, in), "AbortJobWorkflow", j, in)

DoRefreshJob ==
    \E j \in JobIds, in \in RefreshJobRequests :
        SetJobSvc(RefreshJob(JobSvc, j, in), "RefreshJob", j, in)

\* The node gains or loses the leadership.
LeaderChange ==
    /\ isLeader' = ~isLeader
    /\ lastJ' = [NoCall EXCEPT !.op = "LeaderChange"]
    /\ UNCHANGED <<jobStore, jobFactory, secretStore, goalStateDriver>>
    /\ JobFrame

\* The goal state engine takes a job from its queue and runs it.
RunJob ==
    \E j \in goalStateDriver.jobs :
        /\ goalStateDriver' = [goalStateDriver EXCEPT !.jobs = @ \ {j}]
        /\ jobStore' = [jobStore EXCEPT
                          ![j].state = IF @ = "INITIALIZED" THEN "RUNNING"
                                       ELSE @]
        /\ lastJ' = [NoCall EXCEPT !.op = "RunJob"]
        /\ UNCHANGED <<isLeader, jobFactory, secretStore>>
        /\ JobFrame

\* The goal state engine takes an update from its queue.
RunUpdate ==
    \E j \in goalStateDriver.updates :
        /\ goalStateDriver' = [goalStateDriver EXCEPT !.updates = @ \ {j}]
        /\ lastJ' = [NoCall EXCEPT !.op = "RunUpdate"]
        /\ UNCHANGED <<isLeader, jobStore, jobFactory, secretStore>>
        /\ JobFrame

NextJobSvc ==
    \/ DoCreateJob
    \/ DoReplaceJob
    \/ DoPauseJobWorkflow
    \/ DoResumeJobWorkflow
    \/ DoAbortJobWorkflow
    \/ DoRefreshJob
    \/ LeaderChange
    \/ RunJob
    \/ RunUpdate

SpecJobSvc == Init /\ [][NextJobSvc]_vars

\* C24: on a node that is not the leader, every mutating call returns
\* FAILED_PRECONDITION and leaves the stores, the job cache and the goal
\* state engine's queue as they were.
C24_NonLeaderRejected ==
    (lastJ.op \in MutatingCalls /\ ~lastJ.leader) =>
        /\ lastJ.err = "FAILED_PRECONDITION"
        /\ ~lastJ.stored
        /\ ~lastJ.cached
        /\ ~lastJ.secret
        /\ ~lastJ.enqueued

\* C25: ReplaceJob on a job whose runtime state is INITIALIZED returns
\* FAILED_PRECONDITION; it creates no workflow, writes nothing to the job
\* store and enqueues no update.
C25_ReplaceInitializedRejected ==
    (lastJ.op = "ReplaceJob" /\ lastJ.before.state = "INITIALIZED") =>
        /\ lastJ.err = "FAILED_PRECONDITION"
        /\ ~lastJ.stored
        /\ ~lastJ.enqueued

\* The pools that accept jobs: known to the resource manager, not the root
\* and without children.
LeafPools ==
    {p \in DOMAIN ResPoolChildren : p # "root" /\ ResPoolChildren[p] = {}}

\* C26: CreateJob with a resource pool that is not a leaf (no pool id, the
\* root, a pool the resource manager does not return, a pool with children)
\* returns an error and stores no secret, adds no job to the cache or the
\* store and enqueues nothing; a CreateJob that succeeds named a leaf.
C26_CreateJobLeafOnly ==
    lastJ.op = "CreateJob" =>
        /\ lastJ.respool \notin LeafPools =>
              /\ lastJ.err # ""
              /\ ~lastJ.secret
              /\ ~lastJ.cached
              /\ ~lastJ.stored
              /\ ~lastJ.enqueued
        /\ lastJ.err = "" => lastJ.respool \in LeafPools

\* The leader was asked to create a job with secrets in a pool that has
\* children, and refused.
C26_Witness ==
    /\ lastJ.op = "CreateJob"
    /\ lastJ.leader
    /\ lastJ.respool = "respool1"
    /\ lastJ.secrets
    /\ lastJ.err = "INVALID_ARGUMENT"
    /\ lastJ.job \notin jobFactory
    /\ lastJ.job \notin secretStore
    /\ jobStore[lastJ.job] = NoJob

\* How many times the call that ran last made the given call.
CallCount(call) ==
    Cardinality({i \in DOMAIN lastJ.calls : lastJ.calls[i] = call})

WorkflowCalls ==
    {"ReplaceJob", "PauseJobWorkflow", "ResumeJobWorkflow",
     "AbortJobWorkflow"}

\* C38: CreateJob enqueues the job exactly once when it called the cached
\* job's Create, whether Create failed or not, and not at all when it
\* returned before that; ReplaceJob and the pause, resume and abort calls
\* enqueue the update exactly once when the workflow call returned an
\* update id, also beside an error, and not at all otherwise.
C38_EnqueueAfterAttempt ==
    /\ lastJ.op = "CreateJob" =>
          CallCount("EnqueueJob") = CallCount("Create")
          /\ CallCount("Create") <= 1
          /\ (lastJ.err = "" => CallCount("Create") = 1)
    /\ lastJ.op \in WorkflowCalls =>
          CallCount("EnqueueUpdate") = CallCount("WorkflowID")
          /\ CallCount("WorkflowID") + CallCount("WorkflowNoID") <= 1
          /\ CallCount("EnqueueJob") = 0
          /\ (lastJ.err = "" => CallCount("WorkflowID") = 1)

\* A workflow call failed and returned the id of the update it had made;
\* the update is in the queue of the goal state engine.
C38_Witness ==
    /\ lastJ.op \in WorkflowCalls
    /\ lastJ.err = "INTERNAL"
    /\ lastJ.calls = <<"WorkflowID", "EnqueueUpdate">>
    /\ lastJ.job \in goalStateDriver.updates


(***************************************************************************)
(* The status of the hosts under a periodic ResetExpiredHostSummaries.     *)
(* No operation reads a counter to decide a status, an expiry or the       *)
(* offers of a host, so the counters are left where they are here and only *)
(* the summaries and the timed offers are followed.                        *)
(***************************************************************************)
LiveStep(P, op) ==
    /\ hostOfferIndex' = P.index
    /\ timedOffers' = P.timed
    /\ last' = op
    /\ UNCHANGED <<readyResources, placingResources, availableHosts, now,
                   addMark>>
    /\ UNCHANGED <<trackerVars, placeVars, respoolVars, extVars>>

LiveAddOffers ==
    \E offers \in Batches({o \in OfferIds : ~InPool(o)}) :
        LiveStep(AddOffers(Pool, offers, now), Op("AddOffers", "ok", FALSE))

LiveRescindOffer ==
    \E o \in OfferIds :
        LET r == RescindOffer(Pool, o)
        IN  LiveStep(r.pool, Op("RescindOffer", "ok", r.found))

LiveRemoveExpiredOffers ==
    LET r == RemoveExpiredOffers(Pool, now)
    IN  LiveStep(r.pool, Op("RemoveExpiredOffers",
                            IF r.panic THEN "panic" ELSE "ok",
                            DOMAIN r.declined # {}))

LiveClaimForPlace ==
    \E filter \in HostFilters, order \in Orders(DOMAIN hostOfferIndex) :
        LET r == ClaimForPlace(Pool, filter, order, now)
        IN  LiveStep(r.pool,
                     Op("ClaimForPlace", "ok", DOMAIN r.hostOffers # {}))

LiveClaimForLaunch ==
    \E hostname \in Hosts, useReservedOffers \in BOOLEAN :
        LET r == ClaimForLaunch(Pool, hostname, useReservedOffers)
        IN  LiveStep(r.pool,
                     Op(IF useReservedOffers THEN "ClaimReservedForLaunch"
                        ELSE "ClaimForLaunch",
                        IF r.panic THEN "panic"
                        ELSE IF r.err THEN "err" ELSE "ok",
                        r.offers # {}))

LiveReturnUnusedOffers ==
    \E hostname \in Hosts :
        LET r == ReturnUnusedOffers(Pool, hostname)
        IN  LiveStep(r.pool, Op("ReturnUnusedOffers",
                                IF r.err THEN "err" ELSE "ok", FALSE))

LiveResetExpiredHostSummaries ==
    LET r == ResetExpiredHostSummaries(Pool, now)
    IN  LiveStep(r.pool,
                 Op("ResetExpiredHostSummaries", "ok", r.hostnames # {}))

LiveCleanReservationResources ==
    LET r == CleanReservationResources(Pool)
    IN  LiveStep(r.pool,
                 Op("CleanReservationResources", "ok", r.unreserved # {}))

NextLive ==
    \/ LiveAddOffers
    \/ LiveRescindOffer
    \/ LiveRemoveExpiredOffers
    \/ LiveClaimForPlace
    \/ LiveClaimForLaunch
    \/ LiveReturnUnusedOffers
    \/ LiveResetExpiredHostSummaries
    \/ LiveCleanReservationResources
    \/ Tick

\* The clock advances, and the reset runs again and again, whatever the
\* callers of the pool do in between.
SpecLive ==
    /\ Init
    /\ [][NextLive]_vars
    /\ WF_vars(Tick)
    /\ WF_vars(LiveResetExpiredHostSummaries)

Placing(h) ==
    /\ h \in DOMAIN hostOfferIndex
    /\ hostOfferIndex[h].status = PlacingOffer

\* C29: with the clock advancing and ResetExpiredHostSummaries run again
\* and again, every host in PLACING leaves PLACING, whether or not the
\* placement engine that claimed it calls ClaimForLaunch or
\* ReturnUnusedOffers.
C29_PlacingEnds == \A h \in Hosts : Placing(h) ~> ~Placing(h)

\* The forced reset moved a host whose hold had passed back to READY with
\* its offers.
C29_Witness ==
    /\ last.op = "ResetExpiredHostSummaries"
    /\ last.some
    /\ \E h \in DOMAIN hostOfferIndex :
          /\ hostOfferIndex[h].status = ReadyOffer
          /\ hostOfferIndex[h].statusPlacingOfferExpiration = Passed
          /\ hostOfferIndex[h].unreservedOffers # {}


(***************************************************************************)
(* The locks of the offer pool.  Each operation is the sequence of lock    *)
(* and unlock steps its code takes; the callers run their operations one   *)
(* step at a time, and a step that takes a lock waits until the lock is    *)
(* free.  The lock of a host summary is taken and released inside each     *)
(* method of the summary.                                                  *)
(***************************************************************************)
MaxExpired == 2

MaxUnreserve == 1

PoolLock(mode) == [kind |-> "pool", host |-> 0, mode |-> mode]

TimedOffersLock == [kind |-> "timedOffers", host |-> 0, mode |-> "W"]

SummaryLock(h) == [kind |-> "summary", host |-> h, mode |-> "W"]

Lock(l) == [act |-> "lock", lock |-> l]

Unlock(l) == [act |-> "unlock", lock |-> l]

\* One call of a method of the summary of host h.
summaryCall(h) == <<Lock(SummaryLock(h)), Unlock(SummaryLock(h))>>

RECURSIVE summaryCalls(_)
summaryCalls(hosts) ==
    IF hosts = <<>> THEN <<>>
    ELSE summaryCall(Head(hosts)) \o summaryCalls(Tail(hosts))

\* The summaries a range over hostOfferIndex visits, in its order; a loop
\* that breaks early visits a prefix.
HostOrders ==
    UNION {{b \in [1..n -> Hosts] : Injective(b)} : n \in 0..NumHosts}

\* The hosts of the expired offers, in the order of the range.
ExpiredHosts == UNION {[1..n -> Hosts] : n \in 0..MaxExpired}

ClaimForPlaceLocks(order) ==
    <<Lock(PoolLock("R"))>> \o summaryCalls(order)
        \o <<Unlock(PoolLock("R"))>>

\* found: whether hostOfferIndex holds the host (the call on a missing
\* host panics before any lock of a summary).
ClaimForLaunchLocks(hostname, found) ==
    <<Lock(PoolLock("R")), Lock(TimedOffersLock)>>
        \o (IF found THEN summaryCall(hostname) ELSE <<>>)
        \o <<Unlock(TimedOffersLock), Unlock(PoolLock("R"))>>

\* HasAnyOffer and AddMesosOffer on a host that is found.
tryAddOfferLocks(hostName, found) ==
    <<Lock(PoolLock("R"))>>
        \o (IF found THEN summaryCalls(<<hostName, hostName>>) ELSE <<>>)
        \o <<Unlock(PoolLock("R"))>>

addOfferLocks(hostName) ==
    <<Lock(PoolLock("W"))>> \o summaryCalls(<<hostName, hostName>>)
        \o <<Unlock(PoolLock("W"))>>

\* AddOffers of one offer.
AddOffersLocks(hostName, found) ==
    tryAddOfferLocks(hostName, found)
        \o (IF found THEN <<>> ELSE addOfferLocks(hostName))
        \o <<Lock(TimedOffersLock), Unlock(TimedOffersLock)>>

\* RescindOffer with the lock of the summary taken before the lock of the
\* timed offers.
RescindOfferLocks_SummaryFirst(hostName, found) ==
    <<Lock(PoolLock("R"))>>
        \o (IF found THEN <<Lock(SummaryLock(hostName))>> ELSE <<>>)
        \o <<Lock(TimedOffersLock), Unlock(TimedOffersLock)>>
        \o (IF found THEN <<Unlock(SummaryLock(hostName))>> ELSE <<>>)
        \o <<Unlock(PoolLock("R"))>>

\* found: the offer is in timedOffers and its host in hostOfferIndex.
RescindOfferLocks(hostName, found) ==
    <<Lock(PoolLock("R")), Lock(TimedOffersLock)>>
        \o (IF found THEN summaryCall(hostName) ELSE <<>>)
        \o <<Unlock(TimedOffersLock), Unlock(PoolLock("R"))>>

RemoveExpiredOffersLocks(hosts) ==
    <<Lock(PoolLock("R")), Lock(TimedOffersLock)>>
        \o summaryCalls(hosts)
        \o <<Unlock(TimedOffersLock), Unlock(PoolLock("R"))>>

\* Clear with the lock of the timed offers taken before the lock of the
\* pool.
ClearLocks_TimedFirst ==
    <<Lock(TimedOffersLock), Lock(PoolLock("W")),
      Unlock(PoolLock("W")), Unlock(TimedOffersLock)>>

ClearLocks ==
    <<Lock(PoolLock("W")), Lock(TimedOffersLock),
      Unlock(TimedOffersLock), Unlock(PoolLock("W"))>>

\* calls: none when the host is not found, CasStatus alone when it
\* fails, CasStatus and UnreservedAmount otherwise.
ReturnUnusedOffersLocks(hostname, calls) ==
    <<Lock(PoolLock("R"))>>
        \o summaryCalls([i \in 1..calls |-> hostname])
        \o <<Unlock(PoolLock("R"))>>

ResetExpiredHostSummariesLocks(order) ==
    <<Lock(PoolLock("R"))>> \o summaryCalls(order)
        \o <<Unlock(PoolLock("R"))>>

\* One call of mSchedulerClient.Call: the caller waits for the broker.
BrokerCall ==
    [act |-> "call", lock |-> [kind |-> "broker", host |-> 0, mode |-> ""]]

\* RemoveUnusedReservedOffers on each summary, and unreserveOffer for each
\* of the n offers it hands out.
RECURSIVE cleanCalls(_, _)
cleanCalls(order, n) ==
    IF order = <<>> THEN <<>>
    ELSE summaryCall(Head(order)) \o [i \in 1..n |-> BrokerCall]
            \o cleanCalls(Tail(order), n)

CleanReservationResourcesLocks(order, n) ==
    <<Lock(PoolLock("R"))>> \o cleanCalls(order, n)
        \o <<Unlock(PoolLock("R"))>>

DeclineOffersLocks == <<BrokerCall>>

Holds(c, l) == \E i \in 1..Len(threads[c].held) : threads[c].held[i] = l

\* The caller's next step is to take lock l.
WaitsFor(c, l) ==
    /\ threads[c].todo # <<>>
    /\ Head(threads[c].todo) = Lock(l)

\* sync.RWMutex for the pool, sync.Mutex for the others.  A pending
\* Lock of the RWMutex keeps new readers out.
CanLock(c, l) ==
    \A d \in Clients \ {c} :
        IF l.kind = "pool"
        THEN /\ ~Holds(d, PoolLock("W"))
             /\ l.mode = "W" => ~Holds(d, PoolLock("R"))
             /\ l.mode = "R" => ~WaitsFor(d, PoolLock("W"))
        ELSE ~Holds(d, l)

Enter(name, todo) ==
    /\ \E c \in Clients :
          /\ threads[c] = IdleThread
          /\ threads' = [threads EXCEPT
                            ![c] = [op |-> name, todo |-> todo,
                                    held |-> <<>>]]
    /\ LockFrame

LockClaimForPlace ==
    \E order \in HostOrders :
        Enter("ClaimForPlace", ClaimForPlaceLocks(order))

LockClaimForLaunch ==
    \E hostname \in Hosts, found \in BOOLEAN :
        Enter("ClaimForLaunch", ClaimForLaunchLocks(hostname, found))

LockAddOffers ==
    \E hostName \in Hosts, found \in BOOLEAN :
        Enter("AddOffers", AddOffersLocks(hostName, found))

LockRescindOffer ==
    \E hostName \in Hosts, found \in BOOLEAN :
        Enter("RescindOffer", RescindOfferLocks(hostName, found))

LockRemoveExpiredOffers ==
    \E hosts \in ExpiredHosts :
        Enter("RemoveExpiredOffers", RemoveExpiredOffersLocks(hosts))

LockClear == Enter("Clear", ClearLocks)

LockReturnUnusedOffers ==
    \E hostname \in Hosts, calls \in 0..2 :
        Enter("ReturnUnusedOffers",
              ReturnUnusedOffersLocks(hostname, calls))

LockResetExpiredHostSummaries ==
    \E order \in HostOrders :
        Enter("ResetExpiredHostSummaries",
              ResetExpiredHostSummariesLocks(order))

LockCleanReservationResources ==
    \E order \in HostOrders, n \in 0..MaxUnreserve :
        Enter("CleanReservationResources",
              CleanReservationResourcesLocks(order, n))

LockDeclineOffers == Enter("DeclineOffers", DeclineOffersLocks)

\* The next lock or unlock of a caller inside an operation; the caller
\* leaves the operation with its last unlock.
StepOf(c) ==
    /\ LET t == threads[c]
           s == Head(t.todo)
           held == IF s.act = "lock" THEN Append(t.held, s.lock)
                   ELSE SelectSeq(t.held, LAMBDA l : l # s.lock)
       IN  /\ t.todo # <<>>
           /\ s.act = "lock" => CanLock(c, s.lock)
           /\ threads' = [threads EXCEPT
                             ![c] = IF Tail(t.todo) = <<>>
                                    THEN IdleThread
                                    ELSE [t EXCEPT !.todo = Tail(@),
                                                   !.held = held]]
    /\ LockFrame

LockStep == \E c \in Clients : StepOf(c)

NextLock ==
    \/ LockClaimForPlace
    \/ LockClaimForLaunch
    \/ LockAddOffers
    \/ LockRescindOffer
    \/ LockRemoveExpiredOffers
    \/ LockClear
    \/ LockReturnUnusedOffers
    \/ LockResetExpiredHostSummaries
    \/ LockCleanReservationResources
    \/ LockDeclineOffers
    \/ LockStep

SpecLock == Init /\ [][NextLock]_vars

\* Whether every caller takes its locks in the order of the kinds in
\* order, and never two of one kind together.
TakenInOrder(order) ==
    \A c \in Clients :
        \A i, j \in 1..Len(threads[c].held) :
            i < j => \E a, b \in 1..Len(order) :
                        /\ a < b
                        /\ order[a] = threads[c].held[i].kind
                        /\ order[b] = threads[c].held[j].kind

HoldsPoolLock(c) ==
    \E i \in 1..Len(threads[c].held) : threads[c].held[i].kind = "pool"

InBrokerCall(c) ==
    /\ threads[c].todo # <<>>
    /\ Head(threads[c].todo).act = "call"

\* C31: no caller is in a call to the broker while it holds the lock of
\* the pool, in read or in write mode; so no caller that asks for the
\* write lock waits behind a reader that is waiting for the broker.
C31_NoBrokerCallUnderPoolLock ==
    \A c \in Clients : InBrokerCall(c) => ~HoldsPoolLock(c)

(***************************************************************************)
(* The available-host count.                                               *)
(***************************************************************************)
HostsWithOffers(P) == {h \in DOMAIN P.index : HasAnyOffer(P.index[h])}

\* C32: in every reachable state the available-host count is the number
\* of host summaries that hold at least one offer, and it has not gone
\* below zero.
C32_AvailableHostsCounted ==
    /\ availableHosts = Cardinality(HostsWithOffers(Pool))
    /\ availableHosts >= 0

(***************************************************************************)
(* The offer service of the placement engine.  The Host Manager answers    *)
(* AcquireHostOffers with hosts it has put in PLACING for the caller and   *)
(* takes them back to READY on ReleaseHostOffers.                          *)
(***************************************************************************)
\* [err, hostOffers, placing]: a failed call claims no host.
fetchOffers(placing, hostOffers, err) ==
    IF err THEN [err |-> TRUE, hostOffers |-> {}, placing |-> placing]
    ELSE [err |-> FALSE, hostOffers |-> hostOffers,
          placing |-> placing \cup hostOffers]

\* [claimed, offers, released, reason, placing]: claimed are the hosts
\* AcquireHostOffers answered with, offers the hosts returned to the
\* caller, released the hosts given back to the Host Manager.
Acquire(placing, fetchTasks, hostOffers, offersErr, tasksErr) ==
    LET f == fetchOffers(placing, hostOffers, offersErr)
    IN  IF f.err
        THEN [claimed |-> {}, offers |-> {}, released |-> {},
              reason |-> "Failed to acquire host offers",
              placing |-> f.placing]
        ELSE IF fetchTasks /\ f.hostOffers # {} /\ tasksErr
        THEN [claimed |-> f.hostOffers, offers |-> {}, released |-> {},
              reason |-> "Failed to fetch tasks on hosts",
              placing |-> f.placing]
        ELSE [claimed |-> f.hostOffers, offers |-> f.hostOffers,
              released |-> {}, reason |-> "filterResults",
              placing |-> f.placing]

\* The hosts PLACING at the Host Manager after Release(hosts).
Release(placing, hosts, err) ==
    IF hosts = {} \/ err THEN placing ELSE placing \ hosts

DoAcquire ==
    /\ \E fetchTasks, offersErr, tasksErr \in BOOLEAN,
          hostOffers \in SUBSET (Hosts \ placingHosts) :
          LET r == Acquire(placingHosts, fetchTasks, hostOffers, offersErr,
                           tasksErr)
          IN  /\ placingHosts' = r.placing
              /\ acquiredHosts' = acquiredHosts \cup r.offers
              /\ lastA' = [op |-> "Acquire", claimed |-> r.claimed,
                           offers |-> r.offers, released |-> r.released,
                           reason |-> r.reason]
    /\ OfferSvcFrame

DoRelease ==
    /\ \E hosts \in SUBSET acquiredHosts, err \in BOOLEAN :
          /\ placingHosts' = Release(placingHosts, hosts, err)
          /\ acquiredHosts' = acquiredHosts \ hosts
          /\ lastA' = [op |-> "Release", claimed |-> {}, offers |-> {},
                       released |-> IF err THEN {} ELSE hosts,
                       reason |-> IF err THEN "ReleaseHostOffers failed"
                                  ELSE ""]
    /\ OfferSvcFrame

\* The Host Manager's periodic reset takes back the hosts whose hold has
\* passed, whoever holds them.
DoResetPlacingHosts ==
    /\ \E hosts \in SUBSET placingHosts :
          /\ hosts # {}
          /\ placingHosts' = placingHosts \ hosts
          /\ acquiredHosts' = acquiredHosts
          /\ lastA' = [op |-> "Reset", claimed |-> {}, offers |-> {},
                       released |-> hosts, reason |-> ""]
    /\ OfferSvcFrame

NextOfferSvc == DoAcquire \/ DoRelease \/ DoResetPlacingHosts

SpecOfferSvc == Init /\ [][NextOfferSvc]_vars

\* C33: the hosts a successful AcquireHostOffers call answered with are
\* each handed to the caller of Acquire or released back to the Host
\* Manager before Acquire returns, also when GetTasksByHosts fails.
C33_AcquiredHandedOrReleased ==
    lastA.op = "Acquire" =>
        lastA.claimed \subseteq (lastA.offers \cup lastA.released)

\* The mutexes of Go hand a lock that is released again and again to a
\* caller that keeps waiting for it, and a call to the broker returns or
\* times out: a caller whose step is possible again and again takes it.
SpecLockFair ==
    /\ Init
    /\ [][NextLock]_vars
    /\ \A c \in Clients : SF_vars(StepOf(c))

Running(c) == threads[c] # IdleThread

\* C34: all callers take the pool lock, the timed-offers lock and the
\* summary locks in one order; in no state are all the callers inside an
\* operation with none of them able to take its next step; and every
\* operation that has started returns.
C34_NoDeadlock ==
    /\ [](TakenInOrder(<<"pool", "timedOffers", "summary">>)
            /\ ((\E c \in Clients : Running(c)) => ENABLED LockStep))
    /\ \A c \in Clients : Running(c) ~> ~Running(c)

\* One caller waits for the write lock of the pool behind a reader that
\* holds the lock of the timed offers, which the writer will need too.
C34_Witness ==
    \E c, d \in Clients :
        /\ WaitsFor(c, PoolLock("W"))
        /\ Holds(d, PoolLock("R"))
        /\ Holds(d, TimedOffersLock)

(***************************************************************************)
(* The claimants of the hosts.  The pool keeps no record of who claimed a  *)
(* host; claimant and claimedHosts follow it beside the pool.  The         *)
(* counters decide no status and are left where they are.                  *)
(***************************************************************************)
ClaimStep(P, op) ==
    /\ hostOfferIndex' = P.index
    /\ timedOffers' = P.timed
    /\ last' = op
    /\ ClaimFrame

\* Caller c claims hosts for placement.
ClaimantClaimForPlace(c) ==
    \E filter \in HostFilters, order \in Orders(DOMAIN hostOfferIndex) :
        LET r == ClaimForPlace(Pool, filter, order, now)
            matched == DOMAIN r.hostOffers
        IN  /\ matched # {}
            /\ ClaimStep(r.pool, Op("ClaimForPlace", "ok", TRUE))
            /\ claimant' = [h \in Hosts |->
                               IF h \in matched THEN c ELSE claimant[h]]
            /\ claimedHosts' =
                  [claimedHosts EXCEPT ![c] = @ \cup matched]
            /\ lastC' = [op |-> "ClaimForPlace", client |-> c, host |-> 0,
                         ok |-> FALSE, current |-> FALSE]

\* Caller c gives back a host it was given.
ClaimantReturnUnusedOffers(c) ==
    \E hostname \in claimedHosts[c] :
        LET r == ReturnUnusedOffers(Pool, hostname)
        IN  /\ ClaimStep(r.pool, Op("ReturnUnusedOffers",
                                    IF r.err THEN "err" ELSE "ok", FALSE))
            /\ claimant' = claimant
            /\ claimedHosts' =
                  [claimedHosts EXCEPT ![c] = @ \ {hostname}]
            /\ lastC' = [op |-> "ReturnUnusedOffers", client |-> c,
                         host |-> hostname,
                         ok |-> /\ ~r.err
                                /\ hostname \in DOMAIN hostOfferIndex,
                         current |-> /\ Placing(hostname)
                                     /\ claimant[hostname] = c]

\* Caller c launches on a host it was given.
ClaimantClaimForLaunch(c) ==
    \E hostname \in claimedHosts[c] :
        LET r == ClaimForLaunch(Pool, hostname, FALSE)
        IN  /\ ClaimStep(r.pool, Op("ClaimForLaunch",
                                    IF r.panic THEN "panic"
                                    ELSE IF r.err THEN "err" ELSE "ok",
                                    r.offers # {}))
            /\ claimant' = claimant
            /\ claimedHosts' =
                  [claimedHosts EXCEPT ![c] = @ \ {hostname}]
            /\ lastC' = [op |-> "ClaimForLaunch", client |-> c,
                         host |-> hostname,
                         ok |-> ~r.err /\ ~r.panic,
                         current |-> /\ Placing(hostname)
                                     /\ claimant[hostname] = c]

NextClaim ==
    \/ LiveAddOffers
    \/ \E c \in Clients : ClaimantClaimForPlace(c)
    \/ \E c \in Clients : ClaimantReturnUnusedOffers(c)
    \/ \E c \in Clients : ClaimantClaimForLaunch(c)
    \/ LiveResetExpiredHostSummaries
    \/ Tick

SpecClaim == Init /\ [][NextClaim]_vars

\* C35: a ReturnUnusedOffers or ClaimForLaunch of a caller succeeds on a
\* host only if the host is PLACING by that caller's own ClaimForPlace; a
\* caller whose claim was reset cannot release or consume the claim another
\* caller took afterwards.
C35_OnlyCurrentClaimant ==
    (lastC.op \in {"ReturnUnusedOffers", "ClaimForLaunch"} /\ lastC.ok)
        => lastC.current

(***************************************************************************)
(* AddOffers calls in progress beside the other operations of the pool.    *)
(* AddOffers puts an offer into the summary of its host first, and sets    *)
(* the entries of timedOffers after the last offer, under a lock it takes   *)
(* only then.  RescindOffer, ClaimForPlace, ClaimForLaunch and             *)
(* RemoveExpiredOffers hold the read lock of the pool, which the calls     *)
(* inside tryAddOffer share, and run here in one step each, between the    *)
(* steps of the AddOffers calls.                                           *)
(***************************************************************************)
RaceStep(P) ==
    /\ hostOfferIndex' = P.index
    /\ timedOffers' = P.timed
    /\ readyResources' = P.ready
    /\ placingResources' = P.placing
    /\ availableHosts' = P.avail
    /\ UNCHANGED <<callers, added>>
    /\ RaceFrame

RaceRescindOffer ==
    \E o \in OfferIds :
        LET r == RescindOffer(Pool, o)
        IN  /\ RaceStep(r.pool)
            /\ lastR' = [op |-> "RescindOffer", offer |-> o,
                         found |-> r.found,
                         held |-> Holders(Pool, o) # {},
                         declined |-> {}]
            /\ UNCHANGED launchedOffers

RaceClaimForPlace ==
    \E filter \in HostFilters, order \in Orders(DOMAIN hostOfferIndex) :
        LET r == ClaimForPlace(Pool, filter, order, now)
        IN  /\ DOMAIN r.hostOffers # {}
            /\ RaceStep(r.pool)
            /\ UNCHANGED <<launchedOffers, lastR>>

RaceClaimForLaunch ==
    \E hostname \in DOMAIN hostOfferIndex :
        LET r == ClaimForLaunch(Pool, hostname, FALSE)
        IN  /\ ~r.err
            /\ RaceStep(r.pool)
            /\ launchedOffers' = launchedOffers \cup r.offers
            /\ UNCHANGED lastR

RaceRemoveExpiredOffers ==
    LET r == RemoveExpiredOffers(Pool, now)
    IN  /\ DOMAIN r.declined # {}
        /\ RaceStep(r.pool)
        /\ lastR' = [op |-> "RemoveExpiredOffers", offer |-> 0,
                     found |-> FALSE, held |-> FALSE,
                     declined |-> DOMAIN r.declined]
        /\ UNCHANGED launchedOffers

\* The callers that run AddOffers beside the other operations.
NumAdders == 1

Adders == 1..NumAdders

NextRace ==
    \/ \E c \in Adders : AddBegin(c)
    \/ \E c \in Adders : AddTry(c)
    \/ \E c \in Adders : AddMesos(c)
    \/ \E c \in Adders : AddIncGet(c)
    \/ \E c \in Adders : AddIncSet(c)
    \/ \E c \in Adders : AddWrite(c)
    \/ \E c \in Adders : AddTimed(c)
    \/ RaceRescindOffer
    \/ RaceClaimForPlace
    \/ RaceClaimForLaunch
    \/ RaceRemoveExpiredOffers
    \/ Tick

SpecRace == InitAdd /\ [][NextRace]_vars

\* C36: whenever RescindOffer(o) returns false, no host summary holds o
\* at that moment, also while the AddOffers call that brought o is still
\* in progress.
C36_RescindFalseNotHeld ==
    (lastR.op = "RescindOffer" /\ ~lastR.found) => ~lastR.held

\* C37: an offer that a ClaimForLaunch has returned is not in timedOffers
\* afterwards, is not returned by RemoveExpiredOffers for decline and is
\* not reported as found by RescindOffer.
C37_LaunchedOffersGone ==
    /\ launchedOffers \cap DOMAIN timedOffers = {}
    /\ lastR.op = "RemoveExpiredOffers" =>
          lastR.declined \cap launchedOffers = {}
    /\ (lastR.op = "RescindOffer" /\ lastR.found) =>
          lastR.offer \notin launchedOffers

(***************************************************************************)
(* GetReplaceJobDiff reports the instances a replace would add, remove,    *)
(* update and leave alone as ranges of instance ids.  The ids are uint32   *)
(* in the code; here they have IdWidth bits, and the sum the loop takes    *)
(* wraps around at that width.                                             *)
(***************************************************************************)
IdWidth == 3
MaxIds == 4

InstIDs == 0..(2^IdWidth - 1)

\* The lists the caller hands over: distinct ids in any order.
InstIDLists ==
    UNION {{l \in [1..n -> InstIDs] :
               \A i, k \in 1..n : i # k => l[i] # l[k]} : n \in 0..MaxIds}

instIDSortLess(a, b) == a < b

\* The loop over the sorted ids.  open: instanceRange is not nil; from: its
\* From; prev: prevInstID; ranges: instanceIDRange so far.
RECURSIVE rangeLoop(_, _, _)
rangeLoop(ids, i, st) ==
    IF i > Len(ids) THEN st
    ELSE LET instID == ids[i]
             next ==
                 IF ~st.open
                 THEN [st EXCEPT !.open = TRUE, !.from = instID]
                 ELSE IF instID # (st.prev + 1) % 2^IdWidth
                 THEN [st EXCEPT
                          !.ranges = Append(@, [from |-> st.from,
                                                to |-> st.prev]),
                          !.from = instID]
                 ELSE st
         IN  rangeLoop(ids, i + 1, [next EXCEPT !.prev = instID])

\* The loop's result without the range that is still open at its end.
convertInstanceIDListToInstanceRange_NoLastRange(ids) ==
    LET sorted == SortSeq(ids, instIDSortLess)
        st == rangeLoop(sorted, 1,
                        [open |-> FALSE, from |-> 0, prev |-> 0,
                         ranges |-> <<>>])
    IN  [ids |-> sorted, ranges |-> st.ranges]

\* ids: the caller's slice after the call, which sorts it in place; ranges:
\* the ranges returned.
convertInstanceIDListToInstanceRange(ids) ==
    LET sorted == SortSeq(ids, instIDSortLess)
        st == rangeLoop(sorted, 1,
                        [open |-> FALSE, from |-> 0, prev |-> 0,
                         ranges |-> <<>>])
    IN  [ids |-> sorted,
         ranges |-> IF st.open
                    THEN Append(st.ranges,
                                [from |-> st.from, to |-> st.prev])
                    ELSE st.ranges]

\* A list of instances is computed and waits to be converted.
InitConvert ==
    /\ InitPool
    /\ InitTracker
    /\ InitPlace
    /\ InitRespool
    /\ InitUpdate
    /\ InitForwarder
    /\ InitMetrics
    /\ InitJobSvc
    /\ InitLock
    /\ InitOfferSvc
    /\ InitClaim
    /\ InitRace
    /\ instIDs \in InstIDLists
    /\ instanceIDRange = <<>>
    /\ converted = FALSE

DoConvert ==
    LET r == convertInstanceIDListToInstanceRange(instIDs)
    IN  /\ ~converted
        /\ instIDs' = r.ids
        /\ instanceIDRange' = r.ranges
        /\ converted' = TRUE
        /\ ConvFrame

NextConvert == DoConvert

SpecConvert == InitConvert /\ [][NextConvert]_vars

\* The ids a range covers.
RangeIDs(r) == r.from..r.to

\* C40: for a list of distinct instance ids the ranges returned are in
\* ascending order, each has From <= To, a gap of at least one id lies
\* between one range and the next, and together they cover exactly the ids
\* of the list; the empty list gives no range.
C40_RangesAreMaximalRuns ==
    converted =>
        /\ \A i \in DOMAIN instanceIDRange :
              instanceIDRange[i].from <= instanceIDRange[i].to
        /\ \A i \in DOMAIN instanceIDRange :
              i < Len(instanceIDRange) =>
                  instanceIDRange[i].to + 1 < instanceIDRange[i + 1].from
        /\ UNION {RangeIDs(instanceIDRange[i]) : i \in DOMAIN instanceIDRange}
              = Range(instIDs)
        /\ instIDs = <<>> => instanceIDRange = <<>>

\* A list with a run of several ids and, apart from it, the largest id
\* was converted into two ranges.
C40_Witness ==
    /\ converted
    /\ Len(instanceIDRange) = 2
    /\ instanceIDRange[1].from < instanceIDRange[1].to
    /\ instanceIDRange[2].to = 2^IdWidth - 1

====
